---- MODULE Spec2Model ----
(***************************************************************************)
(* Minstrel-HT rate control (MinstrelHtWifiManager) for one remote         *)
(* station: lazy initialization, sample table, statistics update, rate     *)
(* selection, retry chain and retransmission limit.                        *)
(*                                                                         *)
(* Times are integers.  Durations of frames (perfectTxTime, ACK timeout,   *)
(* slot) are in microseconds; the simulator clock `now' and the update     *)
(* interval are in clock ticks of 100 ms.  All uint32_t quantities stay far *)
(* below 2^31 within the bounds of the model, so no wrap-around occurs.    *)
(***************************************************************************)
EXTENDS Integers, Sequences, FiniteSets, TLC

\* ------------------------------------------------------------------------
\* Constants of the group table (minstrel-ht-wifi-manager.h)
\* ------------------------------------------------------------------------
MAX_SUPPORTED_STREAMS == 2
MAX_GROUP_RATES == 8
N_GROUPS == MAX_SUPPORTED_STREAMS * 2 * 2

\* ------------------------------------------------------------------------
\* Bounds of the model
\* ------------------------------------------------------------------------
MaxSampleCol == 2    \* m_nSampleCol (attribute SampleColumn)
MaxTime == 2         \* last clock tick
MaxAttempt == 6      \* attempts recorded for one rate within one interval
MaxFrames == 2       \* m_frameCount
MaxErr == 1          \* m_err
MaxFillMcs == 4      \* largest m_nSupportedMcs in the sample table runs

\* ------------------------------------------------------------------------
\* Attributes (GetTypeId)
\* ------------------------------------------------------------------------
m_updateStats == 1       \* UpdateStatistics: 0.1 s = 1 tick

\* ------------------------------------------------------------------------
\* Collaborators: MAC timing and PHY duration
\* ------------------------------------------------------------------------
AckTimeout == 75   \* GetMac ()->GetAckTimeout (), microseconds
Slot == 9          \* GetMac ()->GetSlot (), microseconds
m_frameLength == 1200

\* data bits per OFDM symbol of HT MCS i, one stream, 20 MHz
Ndbps20 == [i \in 0..7 |-> CASE i = 0 -> 26 [] i = 1 -> 52 [] i = 2 -> 78
                             [] i = 3 -> 104 [] i = 4 -> 156 [] i = 5 -> 208
                             [] i = 6 -> 234 [] OTHER -> 260]
Ndbps40 == [i \in 0..7 |-> CASE i = 0 -> 54 [] i = 1 -> 108 [] i = 2 -> 162
                             [] i = 3 -> 216 [] i = 4 -> 324 [] i = 5 -> 432
                             [] i = 6 -> 486 [] OTHER -> 540]

CeilDiv(a, b) == (a + b - 1) \div b

\* phy->CalculateTxDuration for an HT mixed-format frame of `size' bytes:
\* preamble, then the symbols of service + payload + tail bits.
TxDuration(size, streams, sgi, chWidth, mcs) ==
  LET ndbps == streams * (IF chWidth = 40 THEN Ndbps40[mcs] ELSE Ndbps20[mcs])
      nsym == CeilDiv(16 + 8 * size + 6, ndbps)
  IN 36 + 4 * (streams - 1) + (nsym * (IF sgi = 1 THEN 36 ELSE 40)) \div 10

\* CalculateTxDuration, lines 234-247, with the default PacketLength.
CalculateTxDuration(streams, sgi, chWidth, mcs) ==
  TxDuration(m_frameLength, streams, sgi, chWidth, mcs)

\* ------------------------------------------------------------------------
\* Index arithmetic
\* ------------------------------------------------------------------------
GetIndex(groupid, mcsIndex) == groupid * MAX_GROUP_RATES + mcsIndex
GetRateId(index) == index % MAX_GROUP_RATES
GetGroupId(index) == index \div MAX_GROUP_RATES
GetGroupIdOf(txstreams, sgi, ht40) ==
  MAX_SUPPORTED_STREAMS * 2 * ht40 + MAX_SUPPORTED_STREAMS * sgi + txstreams - 1

Groups == 0..(N_GROUPS - 1)

\* SetupPhy: the group table; entry j holds the parameters of the group
\* whose id is j, and the ideal duration of every MCS of the group.
m_minstrelGroups ==
  [j \in Groups |->
     LET p == CHOOSE q \in (1..MAX_SUPPORTED_STREAMS) \X {0, 1} \X {0, 1} :
                 GetGroupIdOf(q[1], q[2], q[3]) = j
         w == IF p[3] = 1 THEN 40 ELSE 20
     IN [streams |-> p[1], sgi |-> p[2], chWidth |-> w,
         calcTxTime |-> [i \in 0..(MAX_GROUP_RATES - 1) |->
                            CalculateTxDuration(p[1], p[2], w, i)]]]

GetCalcTxTime(groupId, mcs) == m_minstrelGroups[groupId].calcTxTime[mcs]

\* GetCalcTxTime of a manager whose attribute PacketLength is `size'.
CalcTxTimeOf(size, groupId, mcs) ==
  IF size = m_frameLength THEN GetCalcTxTime(groupId, mcs)
  ELSE TxDuration(size, m_minstrelGroups[groupId].streams,
                  m_minstrelGroups[groupId].sgi,
                  m_minstrelGroups[groupId].chWidth, mcs)

Min(a, b) == IF a < b THEN a ELSE b

\* CalculateTimeUnicastPacket: first transmission, then longRetries
\* retransmissions each preceded by the average backoff.
RECURSIVE UnicastLoop(_, _, _, _, _)
UnicastLoop(tt, cw, retry, longRetries, dataTransmissionTime) ==
  IF retry >= longRetries THEN tt
  ELSE UnicastLoop(tt + dataTransmissionTime + AckTimeout + (cw \div 2) * Slot,
                   Min(1023, (cw + 1) * 2), retry + 1, longRetries,
                   dataTransmissionTime)

CalculateTimeUnicastPacket(dataTransmissionTime, shortRetries, longRetries) ==
  UnicastLoop(dataTransmissionTime + AckTimeout, 31, 0, longRetries,
              dataTransmissionTime)

\* RateInit, lines 1307-1325: the retry count of a rate.
RECURSIVE RetryLoopBug(_, _, _)
RetryLoopBug(perfectTxTime, retries, count) ==
  IF retries >= 11 THEN count
  ELSE IF CalculateTimeUnicastPacket(perfectTxTime, 0, retries) >= 6000
       THEN count
       ELSE RetryLoopBug(perfectTxTime, retries + 1, retries)

RECURSIVE RetryLoop(_, _, _)
RetryLoop(perfectTxTime, retries, count) ==
  IF retries >= 11 THEN count
  ELSE IF CalculateTimeUnicastPacket(perfectTxTime, 0, retries) > 6000
       THEN count
       ELSE RetryLoop(perfectTxTime, retries + 1, retries)

InitRetryCount(perfectTxTime) == RetryLoop(perfectTxTime, 2, 1)

\* ------------------------------------------------------------------------
\* State
\* ------------------------------------------------------------------------
VARIABLES
  cfg,       \* attributes and capabilities of the run (fixed by Init)
  station,   \* MinstrelHtWifiRemoteStationAux with its m_htStation
  now,       \* Simulator::Now (), in ticks
  pc,        \* position of the caller in the frame exchange
  failed,    \* "none", or the fatal assertion that aborted the program
  lastCall,  \* the last operation called and what it returned
  fill       \* progress of the sample table runs (InitSampleTable alone)

vars == <<cfg, station, now, pc, failed, lastCall, fill>>

\* ------------------------------------------------------------------------
\* InitSampleTable
\* ------------------------------------------------------------------------
\* The while loop of lines 1386-1389: the first slot of the column, from
\* newIndex on and cyclically, that holds 0.  A loop that has looked at all
\* numSampleRates slots without finding one never exits: result -1.
RECURSIVE Probe(_, _, _, _, _)
Probe(table, col, newIndex, numSampleRates, steps) ==
  IF table[newIndex][col] # 0
  THEN IF steps >= numSampleRates THEN -1
       ELSE Probe(table, col, (newIndex + 1) % numSampleRates,
                  numSampleRates, steps + 1)
  ELSE newIndex

\* One iteration of the inner for loop (lines 1376-1392) with the value
\* `draw' returned by GetInteger (0, numSampleRates).
FillStepBug(f, draw) ==
  LET n == f.n
      slot == Probe(f.table, f.col, draw % n, n, 0)
      last == (f.i + 1 >= n)
  IN IF slot = -1 THEN [f EXCEPT !.hung = TRUE]
     ELSE [f EXCEPT !.table[draw % n][f.col] = f.i,
                    !.i = IF last THEN 0 ELSE f.i + 1,
                    !.col = IF last THEN f.col + 1 ELSE f.col]

FillStep(f, draw) ==
  LET n == f.n
      slot == Probe(f.table, f.col, draw % n, n, 0)
      last == (f.i + 1 >= n)
  IN IF slot = -1 THEN [f EXCEPT !.hung = TRUE]
     ELSE [f EXCEPT !.table[slot][f.col] = f.i,
                    !.i = IF last THEN 0 ELSE f.i + 1,
                    !.col = IF last THEN f.col + 1 ELSE f.col]

\* Lines 1367-1371: the table of numSampleRates rows and nSampleCol columns,
\* all 0, before the first draw.
FillStart(numSampleRates, nSampleCol) ==
  [n |-> numSampleRates, cols |-> nSampleCol,
   table |-> [r \in 0..(numSampleRates - 1) |->
                [c \in 0..(nSampleCol - 1) |-> 0]],
   col |-> 0, i |-> 0, hung |-> FALSE]

FillDone(f) == f.n = 0 \/ f.col >= f.cols

RECURSIVE FillAll(_, _, _)
FillAll(f, draws, k) ==
  IF FillDone(f) \/ f.hung THEN f
  ELSE FillAll(FillStep(f, draws[k]), draws, k + 1)

\* InitSampleTable with the sequence of random draws `draws'.
InitSampleTable(st, nSampleCol, draws) ==
  [st EXCEPT !.m_sampleTable =
                FillAll(FillStart(st.m_nSupportedMcs, nSampleCol), draws, 1).table,
             !.m_col = 0, !.m_index = 0]

\* ------------------------------------------------------------------------
\* UpdateStats
\* ------------------------------------------------------------------------
\* Line 1085: the EWMA of the success probability; the double expression is
\* truncated by the cast to uint32_t.
EwmaBug(tempProb, ewmaProb, ewmaLevel) ==
  ((tempProb * (100 + ewmaLevel)) + (ewmaProb * ewmaLevel)) \div 100

Ewma(tempProb, ewmaProb, ewmaLevel) ==
  ((tempProb * (100 - ewmaLevel)) + (ewmaProb * ewmaLevel)) \div 100

\* Lines 1093-1105: throughput from the EWMA probability and the duration.
ThroughputBug(tempProb, txTimeMicro) ==
  IF tempProb < 10 * 180 THEN 0
  ELSE tempProb * (1000000 \div txTimeMicro)

ThroughputBugCeil(tempProb, txTimeMicro) ==
  IF tempProb < 10 * 180 THEN 0
  ELSE IF tempProb > 90 * 180
       THEN 90 * 180 * CeilDiv(1000000, txTimeMicro)
       ELSE tempProb * CeilDiv(1000000, txTimeMicro)

Throughput(tempProb, txTimeMicro) ==
  IF tempProb < 10 * 180 THEN 0
  ELSE IF tempProb > 90 * 180 THEN 90 * 180 * (1000000 \div txTimeMicro)
       ELSE tempProb * (1000000 \div txTimeMicro)

\* Lines 1116-1142: the adjusted retry count of a rate.
AdjustRetryBug(r) ==
  IF (r.ewmaProb > 17100) \/ (r.ewmaProb < 1800)
  THEN r.adjustedRetryCount \div 4
  ELSE r.retryCount

AdjustRetry(r) ==
  LET a == IF (r.ewmaProb > 17100) \/ (r.ewmaProb < 1800)
           THEN IF r.adjustedRetryCount > 2 THEN 2 ELSE r.retryCount
           ELSE r.retryCount
  IN IF a = 0 THEN 1 ELSE a

\* Body of the loop over the rates of a group, lines 1058-1142.
UpdateRateBug(r, ewmaLevel) ==
  LET txTime == IF r.perfectTxTime = 0 THEN 1000000 ELSE r.perfectTxTime
      prob == (r.numRateSuccess * 18000) \div r.numRateAttempt
      tempProb == Ewma(prob, r.ewmaProb, ewmaLevel)
      r1 == IF r.numRateAttempt # 0
            THEN [r EXCEPT !.prob = prob,
                           !.ewmaProb = tempProb,
                           !.throughput = Throughput(tempProb, txTime)]
            ELSE [r EXCEPT !.numSamplesSkipped = @ + 1]
      r2 == [r1 EXCEPT !.numRateSuccess = 0, !.numRateAttempt = 0]
  IN [r2 EXCEPT !.adjustedRetryCount = AdjustRetry(r2)]

UpdateRate(r, ewmaLevel) ==
  LET txTime == IF r.perfectTxTime = 0 THEN 1000000 ELSE r.perfectTxTime
      prob == (r.numRateSuccess * 18000) \div r.numRateAttempt
      tempProb == Ewma(prob, r.ewmaProb, ewmaLevel)
      r1 == IF r.numRateAttempt # 0
            THEN [r EXCEPT !.numSamplesSkipped = 0,
                           !.prob = prob,
                           !.ewmaProb = tempProb,
                           !.throughput = Throughput(tempProb, txTime)]
            ELSE [r EXCEPT !.numSamplesSkipped = @ + 1]
      r2 == [r1 EXCEPT !.numRateSuccess = 0, !.numRateAttempt = 0]
  IN [r2 EXCEPT !.adjustedRetryCount = AdjustRetry(r2)]

\* Lines 1162-1180: best throughput and best probability of group j.
RECURSIVE GroupScan(_, _, _, _, _)
GroupScan(tbl, j, n, i, acc) ==
  IF i >= n THEN acc
  ELSE LET a1 == IF acc.max_tp < tbl[i].throughput
                 THEN [acc EXCEPT !.index_max_tp = GetIndex(j, i),
                                  !.max_tp = tbl[i].throughput]
                 ELSE acc
           a2 == IF a1.max_prob < tbl[i].ewmaProb
                 THEN [a1 EXCEPT !.index_max_prob = GetIndex(j, i),
                                 !.max_prob = tbl[i].ewmaProb]
                 ELSE a1
       IN GroupScan(tbl, j, n, i + 1, a2)

\* Lines 1181-1192: second best throughput of group j.
RECURSIVE GroupScan2(_, _, _, _, _, _)
GroupScan2(tbl, j, n, i, index_max_tp, acc) ==
  IF i >= n THEN acc
  ELSE GroupScan2(tbl, j, n, i + 1, index_max_tp,
         IF (i # index_max_tp) /\ (acc.max_tp < tbl[i].throughput)
         THEN [index_max_tp2 |-> GetIndex(j, i), max_tp |-> tbl[i].throughput]
         ELSE acc)

\* Lines 1151-1199 for one group.
GroupBest(g, j, n) ==
  IF ~g.m_supported THEN g
  ELSE LET a == GroupScan(g.m_minstrelTable, j, n, 0,
                   [max_tp |-> 0, index_max_tp |-> GetIndex(j, 0),
                    max_prob |-> 0, index_max_prob |-> GetIndex(j, 0)])
           b == GroupScan2(g.m_minstrelTable, j, n, 0, a.index_max_tp,
                   [index_max_tp2 |-> GetIndex(j, 0), max_tp |-> 0])
       IN [g EXCEPT !.m_maxTpRate = a.index_max_tp,
                    !.m_maxTpRate2 = b.index_max_tp2,
                    !.m_maxProbRate = a.index_max_prob]

\* Lines 1205-1209: the lowest supported group.
RECURSIVE LowestSupported(_, _)
LowestSupported(mcs, k) ==
  IF k >= N_GROUPS THEN k
  ELSE IF mcs[k].m_supported THEN k ELSE LowestSupported(mcs, k + 1)

\* Lines 1215-1232: best throughput and best probability over the groups.
RECURSIVE GlobalScanBug(_, _, _)
GlobalScanBug(mcs, j, acc) ==
  IF j >= N_GROUPS THEN acc
  ELSE IF ~mcs[j].m_supported THEN GlobalScanBug(mcs, j + 1, acc)
  ELSE LET g == mcs[j]
           tp == g.m_minstrelTable[GetRateId(g.m_maxTpRate)].throughput
           pr == g.m_minstrelTable[GetRateId(g.m_maxProbRate)].ewmaProb
           a1 == IF acc.max_tp <= tp
                 THEN [acc EXCEPT !.index_max_tp = g.m_maxTpRate, !.max_tp = tp]
                 ELSE acc
           a2 == IF a1.max_prob <= pr
                 THEN [a1 EXCEPT !.index_max_prob = g.m_maxProbRate,
                                 !.max_prob = pr]
                 ELSE a1
       IN GlobalScanBug(mcs, j + 1, a2)

RECURSIVE GlobalScan(_, _, _)
GlobalScan(mcs, j, acc) ==
  IF j >= N_GROUPS THEN acc
  ELSE IF ~mcs[j].m_supported THEN GlobalScan(mcs, j + 1, acc)
  ELSE LET g == mcs[j]
           tp == g.m_minstrelTable[GetRateId(g.m_maxTpRate)].throughput
           pr == g.m_minstrelTable[GetRateId(g.m_maxProbRate)].ewmaProb
           a1 == IF acc.max_tp < tp
                 THEN [acc EXCEPT !.index_max_tp = g.m_maxTpRate, !.max_tp = tp]
                 ELSE acc
           a2 == IF a1.max_prob < pr
                 THEN [a1 EXCEPT !.index_max_prob = g.m_maxProbRate,
                                 !.max_prob = pr]
                 ELSE a1
       IN GlobalScan(mcs, j + 1, a2)

\* Lines 1233-1252: second best throughput over the groups.
RECURSIVE GlobalScan2(_, _, _, _)
GlobalScan2(mcs, i, index_max_tp, acc) ==
  IF i >= N_GROUPS THEN acc
  ELSE IF ~mcs[i].m_supported THEN GlobalScan2(mcs, i + 1, index_max_tp, acc)
  ELSE LET g == mcs[i]
           tp == g.m_minstrelTable[GetRateId(g.m_maxTpRate)].throughput
           tp2 == g.m_minstrelTable[GetRateId(g.m_maxTpRate2)].throughput
           a1 == IF (g.m_maxTpRate # index_max_tp) /\ (acc.max_tp < tp)
                 THEN [index_max_tp2 |-> g.m_maxTpRate, max_tp |-> tp]
                 ELSE acc
           a2 == IF a1.max_tp < tp2
                 THEN [index_max_tp2 |-> g.m_maxTpRate2, max_tp |-> tp2]
                 ELSE a1
       IN GlobalScan2(mcs, i + 1, index_max_tp, a2)

\* Lines 1056-1143: the statistics of every rate of every supported group.
UpdateRates(st, ewmaLevel) ==
  [j \in Groups |->
     IF st.m_mcsTable[j].m_supported
     THEN [st.m_mcsTable[j] EXCEPT !.m_minstrelTable =
             [i \in 0..(st.m_nSupportedMcs - 1) |-> UpdateRate(@[i], ewmaLevel)]]
     ELSE st.m_mcsTable[j]]

\* Lines 1151-1199 for every group.
GroupsBest(mcs, n) == [j \in Groups |-> GroupBest(mcs[j], j, n)]

\* Lines 1254-1262: the station takes the rates found; the current rate
\* moves up to the best throughput rate if that one has a higher index and
\* at least as many streams.
StoreBestBug(st, t, mcs, a, b) ==
  [st EXCEPT !.m_nextStatsUpdate = t,
             !.m_numSamplesSlow = 0,
             !.m_mcsTable = mcs,
             !.m_maxTpRate = a.index_max_tp,
             !.m_maxTpRate2 = b.index_max_tp2,
             !.m_maxProbRate = a.index_max_prob,
             !.m_txRate =
                IF (a.index_max_tp > st.m_txRate)
                   /\ (m_minstrelGroups[GetGroupId(a.index_max_tp)].streams
                         >= m_minstrelGroups[GetGroupId(st.m_txRate)].streams)
                THEN a.index_max_tp ELSE @]

StoreBestBugStreams(st, t, mcs, a, b) ==
  [st EXCEPT !.m_nextStatsUpdate = t + m_updateStats,
             !.m_numSamplesSlow = 0,
             !.m_mcsTable = mcs,
             !.m_maxTpRate = a.index_max_tp,
             !.m_maxTpRate2 = b.index_max_tp2,
             !.m_maxProbRate = a.index_max_prob,
             !.m_txRate =
                IF a.index_max_tp > st.m_txRate THEN a.index_max_tp ELSE @]

StoreBest(st, t, mcs, a, b) ==
  [st EXCEPT !.m_nextStatsUpdate = t + m_updateStats,
             !.m_numSamplesSlow = 0,
             !.m_mcsTable = mcs,
             !.m_maxTpRate = a.index_max_tp,
             !.m_maxTpRate2 = b.index_max_tp2,
             !.m_maxProbRate = a.index_max_prob,
             !.m_txRate =
                IF (a.index_max_tp > st.m_txRate)
                   /\ (m_minstrelGroups[GetGroupId(a.index_max_tp)].streams
                         >= m_minstrelGroups[GetGroupId(st.m_txRate)].streams)
                THEN a.index_max_tp ELSE @]

\* Lines 1233-1252 after the best throughput rate `a' is known.
SelectSecond(st, t, mcs, k, a) ==
  StoreBest(st, t, mcs, a,
            GlobalScan2(mcs, 0, a.index_max_tp,
                        [index_max_tp2 |-> GetIndex(k, 0), max_tp |-> 0]))

\* Lines 1204-1232 on the group table `mcs' of the pass.
SelectBest(st, t, mcs) ==
  LET k == LowestSupported(mcs, 0)
  IN SelectSecond(st, t, mcs, k,
       GlobalScan(mcs, 0, [max_tp |-> 0, index_max_tp |-> GetIndex(k, 0),
                           max_prob |-> 0, index_max_prob |-> GetIndex(k, 0)]))

\* The pass itself, lines 1041-1264 (the deadline has passed).
UpdateStatsPass(st, t, ewmaLevel) ==
  SelectBest(st, t, GroupsBest(UpdateRates(st, ewmaLevel), st.m_nSupportedMcs))

\* UpdateStats called at time t.
UpdateStatsBug(st, t, ewmaLevel) == UpdateStatsPass(st, t, ewmaLevel)

UpdateStats(st, t, ewmaLevel) ==
  IF t < st.m_nextStatsUpdate THEN st ELSE UpdateStatsPass(st, t, ewmaLevel)

\* ------------------------------------------------------------------------
\* Sampling
\* ------------------------------------------------------------------------
\* The do-while loop of lines 873-878: the next supported group after
\* sampleGroup in cyclic order.  A loop that has looked at all N_GROUPS
\* groups without finding a supported one never exits: result -1.
RECURSIVE NextSupportedGroup(_, _, _)
NextSupportedGroup(mcs, sampleGroup, steps) ==
  LET g == (sampleGroup + 1) % N_GROUPS
  IN IF mcs[g].m_supported THEN g
     ELSE IF steps >= N_GROUPS THEN -1
     ELSE NextSupportedGroup(mcs, g, steps + 1)

SetNextSampleBug(st, nSampleCol) ==
  LET g == NextSupportedGroup(st.m_mcsTable, st.m_sampleGroup, 0)
      index == st.m_mcsTable[g].m_index + 1
      wrap == index >= st.m_nSupportedMcs
      col == st.m_mcsTable[g].m_col + 1
  IN [st EXCEPT !.m_sampleGroup = g,
                !.m_mcsTable[g].m_index = IF wrap THEN 0 ELSE index,
                !.m_mcsTable[g].m_col =
                   IF wrap THEN (IF col > nSampleCol THEN 0 ELSE col) ELSE @]

SetNextSample(st, nSampleCol) ==
  LET g == NextSupportedGroup(st.m_mcsTable, st.m_sampleGroup, 0)
      index == st.m_mcsTable[g].m_index + 1
      wrap == index >= st.m_nSupportedMcs
      col == st.m_mcsTable[g].m_col + 1
  IN [st EXCEPT !.m_sampleGroup = g,
                !.m_mcsTable[g].m_index = IF wrap THEN 0 ELSE index,
                !.m_mcsTable[g].m_col =
                   IF wrap THEN (IF col >= nSampleCol THEN 0 ELSE col) ELSE @]

\* GetNextSample: the rate under the cursor, and the station with the
\* cursor advanced.
GetNextSample(st, nSampleCol) ==
  LET sampleGroup == st.m_sampleGroup
      index == st.m_mcsTable[sampleGroup].m_index
      col == st.m_mcsTable[sampleGroup].m_col
      sampleIndex == st.m_sampleTable[index][col]
  IN [rateIndex |-> GetIndex(sampleGroup, sampleIndex),
      st |-> SetNextSample(st, nSampleCol)]

\* Lines 964-984 and 991-1011: a sample is taken.
TakeSampleBug(st, sampleIdx) ==
  LET full == st.m_frameCount > 10000
  IN [st EXCEPT !.m_sampleCount = IF full THEN 0 ELSE @ + 1,
                !.m_frameCount = IF full THEN 0 ELSE @,
                !.m_isSampling = TRUE,
                !.m_sampleRate = sampleIdx]

TakeSample(st, sampleIdx) ==
  LET full == st.m_frameCount >= 10000
  IN [st EXCEPT !.m_sampleCount = IF full THEN 0 ELSE @ + 1,
                !.m_frameCount = IF full THEN 0 ELSE @,
                !.m_isSampling = TRUE,
                !.m_sampleRate = sampleIdx]

\* WifiMode::GetDataRate (chWidth, sgi, streams) of HT MCS `mcs' under the
\* parameters of group `group', in kb/s: the data bits of one OFDM symbol
\* over its duration of 4 us, 3.6 us with the short guard interval.
GetDataRate(mcs, group) ==
  LET g == m_minstrelGroups[group]
      ndbps == g.streams * (IF g.chWidth = 40 THEN Ndbps40[mcs] ELSE Ndbps20[mcs])
  IN (ndbps * 10000) \div (IF g.sgi = 1 THEN 36 ELSE 40)

\* The trace source m_rateChange: not fired, or fired with the data rate of
\* coding index mcs under the width, guard interval and streams of `group'.
NoRateChange == [sent |-> FALSE, mcs |-> 0, group |-> 0]
RateChange(mcs, group) == [sent |-> TRUE, mcs |-> mcs, group |-> group]

\* Lines 1016-1022: continue using the best rate.
KeepBest(st) ==
  [st |-> st, rate |-> st.m_maxTpRate,
   notify |-> RateChange(GetRateId(st.m_maxTpRate), GetGroupId(st.m_maxTpRate))]

\* Lines 914-1013: the rate sampleIdx under the cursor is examined on the
\* station st1 whose cursor has advanced.
ConsiderSampleBug(st1, sampleIdx) ==
  LET sampleGroupId == GetGroupId(sampleIdx)
      sampleRateId == GetRateId(sampleIdx)
      sampleRateInfo == st1.m_mcsTable[sampleGroupId].m_minstrelTable[sampleRateId]
      maxTp2 == st1.m_mcsTable[GetGroupId(st1.m_maxTpRate2)]
                   .m_minstrelTable[GetRateId(st1.m_maxTpRate2)]
      maxProb == st1.m_mcsTable[GetGroupId(st1.m_maxProbRate)]
                   .m_minstrelTable[GetRateId(st1.m_maxProbRate)]
      sampleDuration == sampleRateInfo.perfectTxTime
      st2 == [st1 EXCEPT !.m_numSamplesSlow = @ + 1]
  IN IF sampleIdx # st1.m_maxTpRate /\ sampleIdx # st1.m_maxTpRate2
        /\ sampleIdx # st1.m_maxProbRate /\ sampleRateInfo.ewmaProb <= 95 * 180
     THEN IF sampleDuration < maxTp2.perfectTxTime
             \/ (m_minstrelGroups[sampleGroupId].streams
                    <= m_minstrelGroups[GetGroupId(st1.m_maxTpRate)].streams - 1
                 /\ sampleDuration < maxProb.perfectTxTime)
          THEN [st |-> TakeSample(st1, sampleIdx), rate |-> sampleIdx,
                notify |-> RateChange(GetRateId(st1.m_maxTpRate), sampleGroupId)]
          ELSE IF sampleRateInfo.numSamplesSkipped >= 20
                  /\ st2.m_numSamplesSlow <= 1
               THEN [st |-> TakeSample(st2, sampleIdx), rate |-> sampleIdx,
                     notify |-> RateChange(GetRateId(st2.m_maxTpRate), sampleGroupId)]
               ELSE KeepBest(st2)
     ELSE KeepBest(st1)

ConsiderSampleBugReject(st1, sampleIdx) ==
  LET sampleGroupId == GetGroupId(sampleIdx)
      sampleRateId == GetRateId(sampleIdx)
      sampleRateInfo == st1.m_mcsTable[sampleGroupId].m_minstrelTable[sampleRateId]
      maxTp2 == st1.m_mcsTable[GetGroupId(st1.m_maxTpRate2)]
                   .m_minstrelTable[GetRateId(st1.m_maxTpRate2)]
      maxProb == st1.m_mcsTable[GetGroupId(st1.m_maxProbRate)]
                   .m_minstrelTable[GetRateId(st1.m_maxProbRate)]
      sampleDuration == sampleRateInfo.perfectTxTime
      st2 == [st1 EXCEPT !.m_numSamplesSlow = @ + 1]
  IN IF sampleIdx # st1.m_maxTpRate /\ sampleIdx # st1.m_maxTpRate2
        /\ sampleIdx # st1.m_maxProbRate
     THEN IF sampleDuration < maxTp2.perfectTxTime
             \/ (m_minstrelGroups[sampleGroupId].streams
                    <= m_minstrelGroups[GetGroupId(st1.m_maxTpRate)].streams - 1
                 /\ sampleDuration < maxProb.perfectTxTime)
          THEN [st |-> TakeSample(st1, sampleIdx), rate |-> sampleIdx,
                notify |-> RateChange(GetRateId(st1.m_maxTpRate), sampleGroupId)]
          ELSE IF sampleRateInfo.numSamplesSkipped >= 20
                  /\ st2.m_numSamplesSlow <= 2
               THEN [st |-> TakeSample(st2, sampleIdx), rate |-> sampleIdx,
                     notify |-> RateChange(GetRateId(st2.m_maxTpRate), sampleGroupId)]
               ELSE KeepBest(st2)
     ELSE KeepBest(st1)

ConsiderSampleBugDuration(st1, sampleIdx) ==
  LET sampleGroupId == GetGroupId(sampleIdx)
      sampleRateId == GetRateId(sampleIdx)
      sampleRateInfo == st1.m_mcsTable[sampleGroupId].m_minstrelTable[sampleRateId]
      maxTp2 == st1.m_mcsTable[GetGroupId(st1.m_maxTpRate2)]
                   .m_minstrelTable[GetRateId(st1.m_maxTpRate2)]
      maxProb == st1.m_mcsTable[GetGroupId(st1.m_maxProbRate)]
                   .m_minstrelTable[GetRateId(st1.m_maxProbRate)]
      sampleDuration == sampleRateInfo.perfectTxTime
      st2 == [st1 EXCEPT !.m_numSamplesSlow = @ + 1]
  IN IF sampleIdx # st1.m_maxTpRate /\ sampleIdx # st1.m_maxTpRate2
        /\ sampleIdx # st1.m_maxProbRate /\ sampleRateInfo.ewmaProb <= 95 * 180
     THEN IF sampleDuration < maxTp2.perfectTxTime
          THEN [st |-> TakeSample(st1, sampleIdx), rate |-> sampleIdx,
                notify |-> RateChange(GetRateId(st1.m_maxTpRate), sampleGroupId)]
          ELSE IF sampleRateInfo.numSamplesSkipped >= 20
                  /\ st2.m_numSamplesSlow <= 2
               THEN [st |-> TakeSample(st2, sampleIdx), rate |-> sampleIdx,
                     notify |-> RateChange(GetRateId(st2.m_maxTpRate), sampleGroupId)]
               ELSE KeepBest(st2)
     ELSE KeepBest(st1)

ConsiderSampleBugSlow(st1, sampleIdx) ==
  LET sampleGroupId == GetGroupId(sampleIdx)
      sampleRateId == GetRateId(sampleIdx)
      sampleRateInfo == st1.m_mcsTable[sampleGroupId].m_minstrelTable[sampleRateId]
      maxTp2 == st1.m_mcsTable[GetGroupId(st1.m_maxTpRate2)]
                   .m_minstrelTable[GetRateId(st1.m_maxTpRate2)]
      maxProb == st1.m_mcsTable[GetGroupId(st1.m_maxProbRate)]
                   .m_minstrelTable[GetRateId(st1.m_maxProbRate)]
      sampleDuration == sampleRateInfo.perfectTxTime
      st2 == [st1 EXCEPT !.m_numSamplesSlow = @ + 1]
  IN IF sampleIdx # st1.m_maxTpRate /\ sampleIdx # st1.m_maxTpRate2
        /\ sampleIdx # st1.m_maxProbRate /\ sampleRateInfo.ewmaProb <= 95 * 180
     THEN IF sampleDuration < maxTp2.perfectTxTime
             \/ (m_minstrelGroups[sampleGroupId].streams
                    <= m_minstrelGroups[GetGroupId(st1.m_maxTpRate)].streams - 1
                 /\ sampleDuration < maxProb.perfectTxTime)
          THEN [st |-> TakeSample(st1, sampleIdx), rate |-> sampleIdx,
                notify |-> RateChange(GetRateId(st1.m_maxTpRate), sampleGroupId)]
          ELSE IF sampleRateInfo.numSamplesSkipped >= 20
                  /\ st2.m_numSamplesSlow <= 3
               THEN [st |-> TakeSample(st2, sampleIdx), rate |-> sampleIdx,
                     notify |-> RateChange(GetRateId(st2.m_maxTpRate), sampleGroupId)]
               ELSE KeepBest(st2)
     ELSE KeepBest(st1)

ConsiderSample(st1, sampleIdx) ==
  LET sampleGroupId == GetGroupId(sampleIdx)
      sampleRateId == GetRateId(sampleIdx)
      sampleRateInfo == st1.m_mcsTable[sampleGroupId].m_minstrelTable[sampleRateId]
      maxTp2 == st1.m_mcsTable[GetGroupId(st1.m_maxTpRate2)]
                   .m_minstrelTable[GetRateId(st1.m_maxTpRate2)]
      maxProb == st1.m_mcsTable[GetGroupId(st1.m_maxProbRate)]
                   .m_minstrelTable[GetRateId(st1.m_maxProbRate)]
      sampleDuration == sampleRateInfo.perfectTxTime
      st2 == [st1 EXCEPT !.m_numSamplesSlow = @ + 1]
  IN IF sampleIdx # st1.m_maxTpRate /\ sampleIdx # st1.m_maxTpRate2
        /\ sampleIdx # st1.m_maxProbRate /\ sampleRateInfo.ewmaProb <= 95 * 180
     THEN IF sampleDuration < maxTp2.perfectTxTime
             \/ (m_minstrelGroups[sampleGroupId].streams
                    <= m_minstrelGroups[GetGroupId(st1.m_maxTpRate)].streams - 1
                 /\ sampleDuration < maxProb.perfectTxTime)
          THEN [st |-> TakeSample(st1, sampleIdx), rate |-> sampleIdx,
                notify |-> RateChange(GetRateId(st1.m_maxTpRate), sampleGroupId)]
          ELSE IF sampleRateInfo.numSamplesSkipped >= 20
                  /\ st2.m_numSamplesSlow <= 2
               THEN [st |-> TakeSample(st2, sampleIdx), rate |-> sampleIdx,
                     notify |-> RateChange(GetRateId(st2.m_maxTpRate), sampleGroupId)]
               ELSE KeepBest(st2)
     ELSE KeepBest(st1)

\* Line 914 onwards with the result s of GetNextSample.
ConsiderNextSample(s) == ConsiderSample(s.st, s.rateIndex)

\* FindRate past the bootstrap test, lines 903-1022, with the value
\* coinFlip of the random draw.  Result: the station and the rate returned.
FindRateSampleBugCoin(st, coinFlip, c) ==
  IF coinFlip = 1
  THEN ConsiderNextSample(GetNextSample(st, c.m_nSampleCol))
  ELSE KeepBest(st)

FindRateSampleBug(st, coinFlip, c) ==
  IF (((100 * st.m_sampleCount) \div (st.m_sampleCount + st.m_frameCount))
         <= c.m_lookAroundRate) /\ (coinFlip = 1)
  THEN ConsiderNextSample(GetNextSample(st, c.m_nSampleCol))
  ELSE KeepBest(st)

FindRateSample(st, coinFlip, c) ==
  IF (((100 * st.m_sampleCount) \div (st.m_sampleCount + st.m_frameCount))
         < c.m_lookAroundRate) /\ (coinFlip = 1)
  THEN ConsiderNextSample(GetNextSample(st, c.m_nSampleCol))
  ELSE KeepBest(st)

\* FindRate, lines 898-901 first: the bootstrap case draws nothing.
FindRateBug(st, coinFlip, c) ==
  IF (st.m_sampleCount + st.m_frameCount) = 0
  THEN [st |-> GetNextSample(st, c.m_nSampleCol).st, rate |-> st.m_maxTpRate,
        notify |-> NoRateChange]
  ELSE FindRateSample(st, coinFlip, c)

FindRate(st, coinFlip, c) ==
  IF (st.m_sampleCount + st.m_frameCount) = 0
  THEN [st |-> st, rate |-> st.m_maxTpRate, notify |-> NoRateChange]
  ELSE FindRateSample(st, coinFlip, c)

\* ------------------------------------------------------------------------
\* Initialization of a station
\* ------------------------------------------------------------------------
\* Lines 1280-1286: is the group with parameters g supported by the
\* transmitter and the receiver?
GroupFitsBug(g, c) ==
  /\ ~(~c.phySgi /\ g.sgi = 1)
  /\ c.phyWidth >= g.chWidth
  /\ c.phyTx >= g.streams

GroupFits(g, c) ==
  /\ ~(~c.phySgi /\ g.sgi = 1)
  /\ c.phyWidth >= g.chWidth
  /\ c.phyTx >= g.streams
  /\ ~(~c.staSgi /\ g.sgi = 1)
  /\ c.staWidth >= g.chWidth
  /\ c.staRx >= g.streams

GroupSupported(j, c) == GroupFits(m_minstrelGroups[j], c)

\* Lines 1296-1325: the statistics of a rate whose ideal duration is t.
InitRateInfo(t, retries) ==
  [numRateAttempt |-> 0, numRateSuccess |-> 0, prob |-> 0, ewmaProb |-> 0,
   numSamplesSkipped |-> 0, throughput |-> 0, perfectTxTime |-> t,
   retryCount |-> retries, adjustedRetryCount |-> retries]

InitRateFor(t) == InitRateInfo(t, InitRetryCount(t))

InitRate(j, i, c) == InitRateFor(CalcTxTimeOf(c.m_frameLength, j, i))

\* An element of McsGroupData (N_GROUPS): all members zero.
EmptyGroup ==
  [m_col |-> 0, m_index |-> 0, m_supported |-> FALSE, m_maxTpRate |-> 0,
   m_maxTpRate2 |-> 0, m_maxProbRate |-> 0, m_minstrelTable |-> << >>]

\* Lines 1273-1327: the group table of a new station.
InitGroups(st, c) ==
  [j \in Groups |->
     IF GroupSupported(j, c)
     THEN [EmptyGroup EXCEPT
             !.m_supported = TRUE,
             !.m_minstrelTable =
                [i \in 0..(st.m_nSupportedMcs - 1) |-> InitRate(j, i, c)]]
     ELSE EmptyGroup]

\* station->m_txRate = FindRate (station), with r the result of FindRate.
SetTxRate(r) == [r.st EXCEPT !.m_txRate = r.rate]

RateInit(st, t, c) ==
  SetTxRate(FindRate(UpdateStats(SetNextSample([st EXCEPT !.m_mcsTable = InitGroups(st, c)],
                                               c.m_nSampleCol),
                                 t, c.m_ewmaLevel),
                     0, c))

\* The values of GetInteger (0, n) of the run: the stream of the random
\* variable is fixed by its seed.
Draws(seed, n, cols) == [k \in 1..(n * cols) |-> (seed * k) % (n + 1)]

\* CheckInit at time t.
CheckInit(st, t, c) ==
  IF st.m_initialized THEN st
  ELSE IF ~c.htSupported
       THEN [st EXCEPT !.m_isHt = FALSE, !.m_initialized = TRUE]
       ELSE [RateInit(InitSampleTable([st EXCEPT !.m_nSupportedMcs = c.nMcs],
                                      c.m_nSampleCol,
                                      Draws(c.seed, c.nMcs, c.m_nSampleCol)),
                      t, c)
               EXCEPT !.m_initialized = TRUE]

\* DoCreateStation at time t.
DoCreateStation(t) ==
  [m_isHt |-> TRUE, m_initialized |-> FALSE,
   m_nextStatsUpdate |-> t, m_col |-> 0, m_index |-> 0,
   m_maxTpRate |-> 0, m_maxTpRate2 |-> 0, m_maxProbRate |-> 0,
   m_frameCount |-> 0, m_sampleCount |-> 0,
   m_isSampling |-> FALSE, m_sampleRate |-> 0, m_sampleRateSlower |-> FALSE,
   m_sampleGroup |-> 0, m_numSamplesSlow |-> 0,
   m_shortRetry |-> 0, m_longRetry |-> 0, m_err |-> 0,
   m_txRate |-> 0, m_nSupportedMcs |-> 0,
   m_sampleTable |-> << >>, m_mcsTable |-> << >>]

UpdateRetry(st) == [st EXCEPT !.m_shortRetry = 0, !.m_longRetry = 0]

HtReady(st) == st.m_initialized /\ st.m_isHt

\* The sample cursor of a station.
Cursor(st) ==
  [group |-> st.m_sampleGroup,
   at |-> [j \in Groups |-> <<st.m_mcsTable[j].m_index, st.m_mcsTable[j].m_col>>]]

\* The statistics of the rate with flat index `index'.
RateInfo(st, index) ==
  st.m_mcsTable[GetGroupId(index)].m_minstrelTable[GetRateId(index)]

\* ------------------------------------------------------------------------
\* Retry chain and retransmission limit
\* ------------------------------------------------------------------------
\* Lines 461-523: the rate of the next attempt, or -1 when the fatal
\* assertion "Max retries reached and m_longRetry not cleared properly."
\* is hit.
RetryChainRateBug(st) ==
  LET maxTp == RateInfo(st, st.m_maxTpRate).adjustedRetryCount
      maxTp2 == RateInfo(st, st.m_maxTpRate2).adjustedRetryCount
      maxProb == RateInfo(st, st.m_maxProbRate).adjustedRetryCount
      sample == RateInfo(st, st.m_sampleRate).adjustedRetryCount
  IN IF ~st.m_isSampling
     THEN IF st.m_longRetry < maxTp THEN st.m_maxTpRate
          ELSE IF st.m_longRetry < maxTp + maxTp2 THEN st.m_maxTpRate2
          ELSE IF st.m_longRetry < maxTp + maxTp2 + maxProb THEN st.m_maxProbRate
          ELSE -1
     ELSE IF st.m_longRetry < sample THEN st.m_sampleRate
          ELSE IF st.m_longRetry < maxTp + sample THEN st.m_maxTpRate
          ELSE IF st.m_longRetry < maxTp + sample + maxProb THEN st.m_maxProbRate
          ELSE -1

RetryChainRateBugSecond(st) ==
  LET maxTp == RateInfo(st, st.m_maxTpRate).adjustedRetryCount
      maxTp2 == RateInfo(st, st.m_maxTpRate2).adjustedRetryCount
      maxProb == RateInfo(st, st.m_maxProbRate).adjustedRetryCount
      sample == RateInfo(st, st.m_sampleRate).adjustedRetryCount
  IN IF ~st.m_isSampling
     THEN IF st.m_longRetry < maxTp THEN st.m_maxTpRate
          ELSE IF st.m_longRetry <= maxTp + maxTp2 THEN st.m_maxTpRate2
          ELSE IF st.m_longRetry <= maxTp + maxTp2 + maxProb THEN st.m_maxProbRate
          ELSE -1
     ELSE IF st.m_longRetry < sample THEN st.m_sampleRate
          ELSE IF st.m_longRetry <= maxTp + sample THEN st.m_maxTpRate
          ELSE IF st.m_longRetry <= maxTp + sample + maxProb THEN st.m_maxProbRate
          ELSE -1

RetryChainRateBugNormal(st) ==
  LET maxTp == RateInfo(st, st.m_maxTpRate).adjustedRetryCount
      maxTp2 == RateInfo(st, st.m_maxTpRate2).adjustedRetryCount
      maxProb == RateInfo(st, st.m_maxProbRate).adjustedRetryCount
      sample == RateInfo(st, st.m_sampleRate).adjustedRetryCount
  IN IF ~st.m_isSampling
     THEN IF st.m_longRetry <= maxTp THEN st.m_maxTpRate
          ELSE IF st.m_longRetry < maxTp + maxTp2 THEN st.m_maxTpRate2
          ELSE IF st.m_longRetry <= maxTp + maxTp2 + maxProb THEN st.m_maxProbRate
          ELSE -1
     ELSE IF st.m_longRetry < sample THEN st.m_sampleRate
          ELSE IF st.m_longRetry < maxTp + sample THEN st.m_maxTpRate
          ELSE IF st.m_longRetry <= maxTp + sample + maxProb THEN st.m_maxProbRate
          ELSE -1

RetryChainRateBugSampling(st) ==
  LET maxTp == RateInfo(st, st.m_maxTpRate).adjustedRetryCount
      maxTp2 == RateInfo(st, st.m_maxTpRate2).adjustedRetryCount
      maxProb == RateInfo(st, st.m_maxProbRate).adjustedRetryCount
      sample == RateInfo(st, st.m_sampleRate).adjustedRetryCount
  IN IF ~st.m_isSampling
     THEN IF st.m_longRetry < maxTp THEN st.m_maxTpRate
          ELSE IF st.m_longRetry < maxTp + maxTp2 THEN st.m_maxTpRate2
          ELSE IF st.m_longRetry <= maxTp + maxTp2 + maxProb THEN st.m_maxProbRate
          ELSE -1
     ELSE IF st.m_longRetry <= sample THEN st.m_sampleRate
          ELSE IF st.m_longRetry < maxTp + sample THEN st.m_maxTpRate
          ELSE IF st.m_longRetry <= maxTp + sample + maxProb THEN st.m_maxProbRate
          ELSE -1

RetryChainRate(st) ==
  LET maxTp == RateInfo(st, st.m_maxTpRate).adjustedRetryCount
      maxTp2 == RateInfo(st, st.m_maxTpRate2).adjustedRetryCount
      maxProb == RateInfo(st, st.m_maxProbRate).adjustedRetryCount
      sample == RateInfo(st, st.m_sampleRate).adjustedRetryCount
  IN IF ~st.m_isSampling
     THEN IF st.m_longRetry < maxTp THEN st.m_maxTpRate
          ELSE IF st.m_longRetry < maxTp + maxTp2 THEN st.m_maxTpRate2
          ELSE IF st.m_longRetry <= maxTp + maxTp2 + maxProb THEN st.m_maxProbRate
          ELSE -1
     ELSE IF st.m_longRetry < sample THEN st.m_sampleRate
          ELSE IF st.m_longRetry < maxTp + sample THEN st.m_maxTpRate
          ELSE IF st.m_longRetry <= maxTp + sample + maxProb THEN st.m_maxProbRate
          ELSE -1

\* Lines 807-838: may the frame be retransmitted?
NeedDataRetransmissionBug(st) ==
  LET maxTp == RateInfo(st, st.m_maxTpRate).adjustedRetryCount
      maxTp2 == RateInfo(st, st.m_maxTpRate2).adjustedRetryCount
      maxProb == RateInfo(st, st.m_maxProbRate).adjustedRetryCount
      sample == RateInfo(st, st.m_sampleRate).adjustedRetryCount
  IN IF ~st.m_isSampling
     THEN ~(st.m_longRetry > maxTp + maxTp2 + maxProb)
     ELSE ~(st.m_longRetry > sample + maxTp + maxProb)

NeedDataRetransmission(st) ==
  LET maxTp == RateInfo(st, st.m_maxTpRate).adjustedRetryCount
      maxTp2 == RateInfo(st, st.m_maxTpRate2).adjustedRetryCount
      maxProb == RateInfo(st, st.m_maxProbRate).adjustedRetryCount
      sample == RateInfo(st, st.m_sampleRate).adjustedRetryCount
  IN IF ~st.m_isSampling
     THEN ~(st.m_longRetry >= maxTp + maxTp2 + maxProb)
     ELSE ~(st.m_longRetry >= sample + maxTp + maxProb)

\* ------------------------------------------------------------------------
\* Handlers on the station (after CheckInit), HT station
\* ------------------------------------------------------------------------
\* DoReportDataFailed, lines 439-459: the counters.
DataFailedCountBug(st) ==
  [st EXCEPT !.m_longRetry = @ + 1,
             !.m_mcsTable[GetGroupId(st.m_maxTpRate)]
                .m_minstrelTable[GetRateId(st.m_maxTpRate)].numRateAttempt = @ + 1]

DataFailedCount(st) ==
  [st EXCEPT !.m_longRetry = @ + 1,
             !.m_mcsTable[GetGroupId(st.m_txRate)]
                .m_minstrelTable[GetRateId(st.m_txRate)].numRateAttempt = @ + 1]

\* Lines 579-583 and 631-635: the rate of the next frame, on the station s3
\* left by UpdateStats.
NextTxRateBug(s3, coinFlip, c) ==
  IF s3.m_nSupportedMcs >= 1
  THEN [FindRate(s3, coinFlip, c).st EXCEPT !.m_txRate = s3.m_txRate]
  ELSE s3

NextTxRate(s3, coinFlip, c) ==
  IF s3.m_nSupportedMcs >= 1 THEN SetTxRate(FindRate(s3, coinFlip, c)) ELSE s3

\* Lines 563-571: the ACK is counted for the current rate.
CountOkBugSuccess(st) ==
  [UpdateRetry([st EXCEPT
       !.m_isSampling = FALSE,
       !.m_sampleRateSlower = FALSE,
       !.m_mcsTable[GetGroupId(st.m_txRate)]
          .m_minstrelTable[GetRateId(st.m_txRate)] =
            [@ EXCEPT !.numRateSuccess = @ + 1]])
     EXCEPT !.m_frameCount = @ + 1]

CountOkBug(st) ==
  [UpdateRetry([st EXCEPT
       !.m_isSampling = FALSE,
       !.m_sampleRateSlower = FALSE,
       !.m_mcsTable[GetGroupId(st.m_maxTpRate)]
          .m_minstrelTable[GetRateId(st.m_maxTpRate)] =
            [@ EXCEPT !.numRateSuccess = @ + 1, !.numRateAttempt = @ + 1]])
     EXCEPT !.m_frameCount = @ + 1]

CountOk(st) ==
  [UpdateRetry([st EXCEPT
       !.m_isSampling = FALSE,
       !.m_sampleRateSlower = FALSE,
       !.m_mcsTable[GetGroupId(st.m_txRate)]
          .m_minstrelTable[GetRateId(st.m_txRate)] =
            [@ EXCEPT !.numRateSuccess = @ + 1, !.numRateAttempt = @ + 1]])
     EXCEPT !.m_frameCount = @ + 1]

\* DoReportDataOk, lines 563-585.
DataOk(st, t, c, coinFlip) ==
  NextTxRate(UpdateStats(CountOk(st), t, c.m_ewmaLevel), coinFlip, c)

\* Lines 619-626: the frame is given up.
CountFinalFailedBugFrames(st) ==
  [UpdateRetry([st EXCEPT !.m_isSampling = FALSE, !.m_sampleRateSlower = FALSE])
     EXCEPT !.m_err = @ + 1, !.m_frameCount = @ + 1]

CountFinalFailedBug(st) ==
  [UpdateRetry([st EXCEPT !.m_sampleRateSlower = FALSE])
     EXCEPT !.m_err = @ + 1]

CountFinalFailed(st) ==
  [UpdateRetry([st EXCEPT !.m_isSampling = FALSE, !.m_sampleRateSlower = FALSE])
     EXCEPT !.m_err = @ + 1]

\* DoReportFinalDataFailed, lines 619-636.
FinalDataFailed(st, t, c, coinFlip) ==
  NextTxRate(UpdateStats(CountFinalFailed(st), t, c.m_ewmaLevel), coinFlip, c)

\* ------------------------------------------------------------------------
\* The run: configuration, caller and events
\* ------------------------------------------------------------------------
OneStream20 ==
  [phySgi |-> FALSE, phyWidth |-> 20, phyTx |-> 1,
   staSgi |-> FALSE, staWidth |-> 20, staRx |-> 1]
TwoStreams20 ==
  [phySgi |-> TRUE, phyWidth |-> 40, phyTx |-> 2,
   staSgi |-> FALSE, staWidth |-> 20, staRx |-> 2]

Config(h, n, w, la, seed, p) ==
  [htSupported |-> h, nMcs |-> n, m_ewmaLevel |-> w, m_lookAroundRate |-> la,
   seed |-> seed,
   m_nSampleCol |-> MaxSampleCol,
   m_frameLength |-> m_frameLength,
   phySgi |-> p.phySgi, phyWidth |-> p.phyWidth, phyTx |-> p.phyTx,
   staSgi |-> p.staSgi, staWidth |-> p.staWidth, staRx |-> p.staRx]

\* The runs explored: capabilities of the radio and of the peer, number of
\* MCS of the peer, attributes EWMA and LookAroundRate, seed of the random
\* stream.
Configs ==
  { Config(TRUE, 3, 75, 50, 1, OneStream20),
    Config(TRUE, 2, 0, 10, 0, TwoStreams20),
    Config(TRUE, 1, 100, 10, 0, OneStream20),
    Config(FALSE, 1, 75, 10, 0, OneStream20) }

Running == failed = "none" /\ pc # "fill"

Called(op, ret) == [op |-> op, ret |-> ret]

Init ==
  /\ cfg \in Configs
  /\ station = DoCreateStation(0)
  /\ now = 0
  /\ pc = "tx"
  /\ failed = "none"
  /\ lastCall = Called("DoCreateStation", TRUE)
  /\ fill = FillStart(0, 0)

\* Time passes.
Tick ==
  /\ Running
  /\ now < MaxTime
  /\ now' = now + 1
  /\ lastCall' = Called("Tick", TRUE)
  /\ UNCHANGED <<cfg, station, pc, failed, fill>>

\* DoGetDataTxVector, lines 676-682: the group of the current rate asks for
\* more than the station supports.
Inconsistent(group, c) ==
  \/ (group.sgi = 1 /\ ~c.staSgi)
  \/ group.chWidth > c.staWidth
  \/ group.streams > c.staRx

\* The caller asks for the transmit vector of the next attempt.
DoGetDataTxVector ==
  /\ Running /\ pc = "tx"
  /\ lastCall.op # "DoGetDataTxVector"
  /\ \E s0 \in {CheckInit(station, now, cfg)} :
       /\ station' = s0
       /\ failed' = IF s0.m_isHt
                       /\ Inconsistent(m_minstrelGroups[GetGroupId(s0.m_txRate)], cfg)
                    THEN "Inconsistent group selected."
                    ELSE failed
  /\ lastCall' = Called("DoGetDataTxVector", TRUE)
  /\ UNCHANGED <<cfg, now, pc, fill>>

\* An attempt of the frame got no ACK.
DoReportDataFailed ==
  /\ Running /\ pc = "tx"
  /\ \E s0 \in {CheckInit(station, now, cfg)} :
       IF ~s0.m_isHt
       THEN /\ station' = s0
            /\ failed' = failed
       ELSE /\ RateInfo(s0, s0.m_txRate).numRateAttempt < MaxAttempt
            /\ \E s1 \in {DataFailedCount(s0)} :
                 \E rate \in {RetryChainRate(s1)} :
                   IF rate = -1
                   THEN /\ station' = s1
                        /\ failed' = "Max retries reached and m_longRetry not cleared properly."
                   ELSE /\ station' = [s1 EXCEPT !.m_txRate = rate]
                        /\ failed' = failed
  /\ pc' = "consult"
  /\ lastCall' = Called("DoReportDataFailed", TRUE)
  /\ UNCHANGED <<cfg, now, fill>>

\* The caller asks whether to retransmit; `normally' is the answer of the
\* base class, returned as it is for a station that is not HT.
DoNeedDataRetransmission ==
  /\ Running /\ pc = "consult"
  /\ \E normally \in BOOLEAN :
     \E s0 \in {CheckInit(station, now, cfg)} :
       \E ret \in {IF ~s0.m_isHt THEN normally ELSE NeedDataRetransmission(s0)} :
          /\ station' = s0
          /\ lastCall' = Called("DoNeedDataRetransmission", ret)
          /\ pc' = IF ret THEN "tx" ELSE "final"
  /\ UNCHANGED <<cfg, now, failed, fill>>

\* The frame was acknowledged.
DoReportDataOk ==
  /\ Running /\ pc = "tx"
  /\ \E s0 \in {CheckInit(station, now, cfg)} :
       IF ~s0.m_isHt
       THEN station' = s0
       ELSE /\ RateInfo(s0, s0.m_txRate).numRateAttempt < MaxAttempt
            /\ s0.m_frameCount < MaxFrames
            /\ \E coinFlip \in {0, 1} :
                 station' = DataOk(s0, now, cfg, coinFlip)
  /\ pc' = "tx"
  /\ lastCall' = Called("DoReportDataOk", TRUE)
  /\ UNCHANGED <<cfg, now, failed, fill>>

\* The frame is abandoned.
DoReportFinalDataFailed ==
  /\ Running /\ pc = "final"
  /\ \E s0 \in {CheckInit(station, now, cfg)} :
       IF ~s0.m_isHt
       THEN station' = s0
       ELSE /\ s0.m_err < MaxErr
            /\ \E coinFlip \in {0, 1} :
                 station' = FinalDataFailed(s0, now, cfg, coinFlip)
  /\ pc' = "tx"
  /\ lastCall' = Called("DoReportFinalDataFailed", TRUE)
  /\ UNCHANGED <<cfg, now, failed, fill>>

Next ==
  \/ Tick
  \/ DoGetDataTxVector
  \/ DoReportDataFailed
  \/ DoNeedDataRetransmission
  \/ DoReportDataOk
  \/ DoReportFinalDataFailed

Spec == Init /\ [][Next]_vars

\* ------------------------------------------------------------------------
\* The sample table alone: InitSampleTable under every sequence of draws
\* ------------------------------------------------------------------------
InitFill ==
  /\ cfg = Config(TRUE, 1, 75, 10, 0, OneStream20)
  /\ station = DoCreateStation(0)
  /\ now = 0
  /\ pc = "fill"
  /\ failed = "none"
  /\ lastCall = Called("DoCreateStation", TRUE)
  /\ fill \in { FillStart(n, c) : n \in 1..MaxFillMcs, c \in 1..MaxSampleCol }

\* One draw of the uniform random variable and the slot it leads to.
FillDraw ==
  /\ pc = "fill"
  /\ ~FillDone(fill) /\ ~fill.hung
  /\ \E draw \in 0..fill.n : fill' = FillStep(fill, draw)
  /\ lastCall' = Called("InitSampleTable", TRUE)
  /\ UNCHANGED <<cfg, station, now, pc, failed>>

NextFill == FillDraw

SpecFill == InitFill /\ [][NextFill]_vars

\* ------------------------------------------------------------------------
\* Long runs of acknowledged frames
\* ------------------------------------------------------------------------
BurstConfigs ==
  { Config(TRUE, 2, w, 50, 1, OneStream20) : w \in {0, 5, 10, 75, 91, 100} }

InitBurst ==
  /\ cfg \in BurstConfigs
  /\ station = DoCreateStation(0)
  /\ now = 0
  /\ pc = "tx"
  /\ failed = "none"
  /\ lastCall = Called("DoCreateStation", TRUE)
  /\ fill = FillStart(0, 0)

\* Length of the run of frames acknowledged back to back.
BurstLen == 99

\* Time passes before the run of frames starts or after it has ended.
TickBurst ==
  /\ station.m_frameCount = 0 \/ station.m_frameCount >= BurstLen
  /\ Tick

\* A frame is acknowledged; during the run the coin of FindRate never
\* selects exploration.
DoReportDataOkBurst ==
  /\ Running /\ pc = "tx"
  /\ \E s0 \in {CheckInit(station, now, cfg)} :
       /\ s0.m_isHt
       /\ s0.m_frameCount < BurstLen + MaxFrames
       /\ \E coinFlip \in (IF s0.m_frameCount < BurstLen THEN {0} ELSE {0, 1}) :
            station' = DataOk(s0, now, cfg, coinFlip)
  /\ lastCall' = Called("DoReportDataOk", TRUE)
  /\ UNCHANGED <<cfg, now, pc, failed, fill>>

NextBurst ==
  \/ TickBurst
  \/ DoReportDataOkBurst

SpecBurst == InitBurst /\ [][NextBurst]_vars

\* ------------------------------------------------------------------------
\* RTS: the transmit vector of the RTS that protects the next frame
\* ------------------------------------------------------------------------
\* WifiMode::GetNonHtReferenceRate of HT MCS `mcs', as its data rate in
\* Mb/s at 20 MHz (GetDataRate (20, false, 1)).
NonHtReferenceRate(mcs) ==
  CASE mcs = 0 -> 6 [] mcs = 1 -> 12 [] mcs = 2 -> 18 [] mcs = 3 -> 24
    [] mcs = 4 -> 36 [] mcs = 5 -> 48 [] OTHER -> 54

\* Data rates in Mb/s of the modes of the PHY (phy->GetMode (i)).
PhyModes == {6, 9, 12, 18, 24, 36, 48, 54}

\* Data rates of the basic rate sets explored (GetBasicMode (i)).
BasicRateSets == { {}, {24}, {6, 12, 24} }

\* Lines 729-762: is rateFound true after the two loops?
RtsRateFound(st, basic) ==
  \/ \E rate \in basic : rate <= NonHtReferenceRate(GetRateId(st.m_txRate))
  \/ \E rate \in PhyModes : rate <= NonHtReferenceRate(GetRateId(st.m_txRate))

\* The caller asks for the transmit vector of an RTS.  Assertions are
\* compiled in (NS_ASSERT aborts the program), as in the other handlers.
DoGetRtsTxVector ==
  /\ Running /\ pc = "tx"
  /\ \E basic \in BasicRateSets :
       \E s0 \in {CheckInit(station, now, cfg)} :
         /\ station' = s0
         /\ lastCall' = Called("DoGetRtsTxVector",
                               [basic |-> basic,
                                found |-> s0.m_isHt /\ RtsRateFound(s0, basic)])
         /\ failed' = IF s0.m_isHt /\ RtsRateFound(s0, basic)
                      THEN "!rateFound" ELSE failed
  /\ UNCHANGED <<cfg, now, pc, fill>>

NextRts ==
  \/ Tick
  \/ DoReportDataOk
  \/ DoGetRtsTxVector

SpecRts == Init /\ [][NextRts]_vars

\* ------------------------------------------------------------------------
\* Initialization when the radio and the peer share no group
\* ------------------------------------------------------------------------
\* A radio on a 10 MHz channel: no group has a channel width that fits.
Narrow10 ==
  [phySgi |-> FALSE, phyWidth |-> 10, phyTx |-> 1,
   staSgi |-> FALSE, staWidth |-> 10, staRx |-> 1]

\* A peer that announces no receive antenna.
NoAntenna ==
  [phySgi |-> TRUE, phyWidth |-> 40, phyTx |-> 2,
   staSgi |-> TRUE, staWidth |-> 40, staRx |-> 0]

NoGroupConfigs ==
  { Config(TRUE, 3, 75, 50, 1, Narrow10),
    Config(TRUE, 2, 0, 10, 0, NoAntenna) }

InitNoGroup ==
  /\ cfg \in Configs \cup NoGroupConfigs
  /\ station = DoCreateStation(0)
  /\ now = 0
  /\ pc = "tx"
  /\ failed = "none"
  /\ lastCall = Called("DoCreateStation", TRUE)
  /\ fill = FillStart(0, 0)

\* RateInit of an HT station calls SetNextSample on the group table just
\* built: with no supported group its do-while loop never exits.
InitDiverges(st, c) ==
  /\ ~st.m_initialized
  /\ c.htSupported
  /\ NextSupportedGroup(InitGroups(st, c), st.m_sampleGroup, 0) = -1

\* The first handler called for the station runs CheckInit and never
\* returns: the caller stays inside the call.
CheckInitDiverges ==
  /\ Running /\ pc = "tx"
  /\ InitDiverges(station, cfg)
  /\ pc' = "hang"
  /\ lastCall' = Called("CheckInit", FALSE)
  /\ UNCHANGED <<cfg, station, now, failed, fill>>

NextNoGroup ==
  \/ CheckInitDiverges
  \/ ~InitDiverges(station, cfg) /\ Tick
  \/ ~InitDiverges(station, cfg) /\ DoGetDataTxVector
  \/ ~InitDiverges(station, cfg) /\ DoReportDataOk

SpecNoGroup == InitNoGroup /\ [][NextNoGroup]_vars

\* ------------------------------------------------------------------------
\* Two supported groups: acknowledged frames over several statistics passes
\* ------------------------------------------------------------------------
MaxOk == 7
MaxPasses == 4

TwoGroupConfigs == { Config(TRUE, 2, 0, 50, seed, TwoStreams20) : seed \in {0, 1} }

InitTwoGroups ==
  /\ cfg \in TwoGroupConfigs
  /\ station = DoCreateStation(0)
  /\ now = 0
  /\ pc = "tx"
  /\ failed = "none"
  /\ lastCall = Called("DoCreateStation", TRUE)
  /\ fill = FillStart(0, 0)

TickTwoGroups ==
  /\ Running
  /\ now < MaxPasses
  /\ now' = now + 1
  /\ lastCall' = Called("Tick", TRUE)
  /\ UNCHANGED <<cfg, station, pc, failed, fill>>

DoReportDataOkTwoGroups ==
  /\ Running /\ pc = "tx"
  /\ \E s0 \in {CheckInit(station, now, cfg)} :
       /\ s0.m_isHt
       /\ s0.m_frameCount < MaxOk
       /\ \E coinFlip \in {0, 1} :
            station' = DataOk(s0, now, cfg, coinFlip)
  /\ lastCall' = Called("DoReportDataOk", TRUE)
  /\ UNCHANGED <<cfg, now, pc, failed, fill>>

NextTwoGroups ==
  \/ TickTwoGroups
  \/ DoReportDataOkTwoGroups

SpecTwoGroups == InitTwoGroups /\ [][NextTwoGroups]_vars

\* ------------------------------------------------------------------------
\* Four supported groups: one or two streams, long or short guard interval
\* ------------------------------------------------------------------------
FourGroups20 ==
  [phySgi |-> TRUE, phyWidth |-> 20, phyTx |-> 2,
   staSgi |-> TRUE, staWidth |-> 20, staRx |-> 2]

FourGroupConfigs == { Config(TRUE, 1, 0, 50, 0, FourGroups20) }

InitFourGroups ==
  /\ cfg \in FourGroupConfigs
  /\ station = DoCreateStation(0)
  /\ now = 0
  /\ pc = "tx"
  /\ failed = "none"
  /\ lastCall = Called("DoCreateStation", TRUE)
  /\ fill = FillStart(0, 0)

MaxOkFour == 3
MaxRetryFour == 1

DoReportDataOkFourGroups ==
  /\ Running /\ pc = "tx"
  /\ \E s0 \in {CheckInit(station, now, cfg)} :
       /\ s0.m_isHt
       /\ s0.m_frameCount < MaxOkFour
       /\ \E coinFlip \in {0, 1} :
            station' = DataOk(s0, now, cfg, coinFlip)
  /\ lastCall' = Called("DoReportDataOk", TRUE)
  /\ UNCHANGED <<cfg, now, pc, failed, fill>>

DoReportDataFailedFourGroups ==
  /\ station.m_longRetry < MaxRetryFour
  /\ DoReportDataFailed

NextFourGroups ==
  \/ Tick
  \/ DoReportDataOkFourGroups
  \/ DoReportDataFailedFourGroups
  \/ DoNeedDataRetransmission

SpecFourGroups == InitFourGroups /\ [][NextFourGroups]_vars

\* ------------------------------------------------------------------------
\* RTS failures: the RTS of a frame got no CTS
\* ------------------------------------------------------------------------
MaxShortRetry == 2

\* DoReportRtsFailed, lines 361-365.
RtsFailed(st) == [st EXCEPT !.m_shortRetry = @ + 1]

\* DoReportFinalRtsFailed, lines 396-399.
FinalRtsFailedBug(st) ==
  [UpdateRetry([st EXCEPT !.m_isSampling = FALSE]) EXCEPT !.m_err = @ + 1]

FinalRtsFailed(st) == [UpdateRetry(st) EXCEPT !.m_err = @ + 1]

\* An RTS got no CTS.
DoReportRtsFailed ==
  /\ Running /\ pc = "tx"
  /\ \E s0 \in {CheckInit(station, now, cfg)} :
       IF ~s0.m_isHt
       THEN station' = s0
       ELSE /\ s0.m_shortRetry < MaxShortRetry
            /\ station' = RtsFailed(s0)
  /\ lastCall' = Called("DoReportRtsFailed", TRUE)
  /\ UNCHANGED <<cfg, now, pc, failed, fill>>

\* The frame is abandoned because its RTS was never answered.
DoReportFinalRtsFailed ==
  /\ Running /\ pc = "tx"
  /\ \E s0 \in {CheckInit(station, now, cfg)} :
       IF ~s0.m_isHt
       THEN station' = s0
       ELSE /\ s0.m_err < MaxErr
            /\ station' = FinalRtsFailed(s0)
  /\ lastCall' = Called("DoReportFinalRtsFailed", TRUE)
  /\ UNCHANGED <<cfg, now, pc, failed, fill>>

\* The attempt that followed an answered RTS got no ACK.
DoReportDataFailedRts ==
  /\ station.m_longRetry < MaxRetryFour
  /\ DoReportDataFailed

RtsFailedConfigs == { Config(TRUE, 3, 75, 50, 1, OneStream20) }

InitRtsFailed ==
  /\ cfg \in RtsFailedConfigs
  /\ station = DoCreateStation(0)
  /\ now = 0
  /\ pc = "tx"
  /\ failed = "none"
  /\ lastCall = Called("DoCreateStation", TRUE)
  /\ fill = FillStart(0, 0)

NextRtsFailed ==
  \/ Tick
  \/ DoReportDataOk
  \/ DoReportDataFailedRts
  \/ DoNeedDataRetransmission
  \/ DoReportRtsFailed
  \/ DoReportFinalRtsFailed

SpecRtsFailed == InitRtsFailed /\ [][NextRtsFailed]_vars

\* ------------------------------------------------------------------------
\* Starved rates: a few frames with exploration, then intervals of one
\* acknowledged frame each without exploration, then exploration again
\* ------------------------------------------------------------------------
MaxEarly == 5    \* frames acknowledged before the first tick
QuietLen == 20   \* intervals in which the coin never selects exploration
MaxLate == 7     \* frames acknowledged once the quiet intervals are over

SlowConfigs ==
  { Config(TRUE, 4, w, 50, 1, OneStream20) : w \in {0, 75} }

InitSlow ==
  /\ cfg \in SlowConfigs
  /\ station = DoCreateStation(0)
  /\ now = 0
  /\ pc = "tx"
  /\ failed = "none"
  /\ lastCall = Called("DoCreateStation", TRUE)
  /\ fill = FillStart(0, 0)

\* Time passes once the frame of the interval has been sent.
TickSlow ==
  /\ Running
  /\ station.m_initialized
  /\ now < station.m_nextStatsUpdate
  /\ now < QuietLen + 1
  /\ now' = now + 1
  /\ lastCall' = Called("Tick", TRUE)
  /\ UNCHANGED <<cfg, station, pc, failed, fill>>

\* A frame is acknowledged.
DoReportDataOkSlow ==
  /\ Running /\ pc = "tx"
  /\ \E s0 \in {CheckInit(station, now, cfg)} :
       /\ s0.m_isHt
       /\ \/ now = 0 /\ s0.m_frameCount < MaxEarly
          \/ now > 0 /\ now >= s0.m_nextStatsUpdate
          \/ now = QuietLen + 1
               /\ s0.m_frameCount < MaxEarly + QuietLen + MaxLate
       /\ \E coinFlip \in (IF now = 0 \/ now >= QuietLen + 1
                           THEN {0, 1} ELSE {0}) :
            station' = DataOk(s0, now, cfg, coinFlip)
  /\ lastCall' = Called("DoReportDataOk", TRUE)
  /\ UNCHANGED <<cfg, now, pc, failed, fill>>

NextSlow ==
  \/ TickSlow
  \/ DoReportDataOkSlow

SpecSlow == InitSlow /\ [][NextSlow]_vars

\* ------------------------------------------------------------------------
\* Renormalisation: the starved-rate scenario with a run of frames without
\* exploration in the last interval that brings m_frameCount to 10000
\* ------------------------------------------------------------------------
RenormEarly == 3    \* frames acknowledged before the first tick
RenormRun == 9996   \* m_frameCount up to which the coin never explores
RenormLate == 6     \* frames acknowledged past the run

RenormConfigs == { Config(TRUE, 4, 75, 50, 1, OneStream20) }

InitRenorm ==
  /\ cfg \in RenormConfigs
  /\ station = DoCreateStation(0)
  /\ now = 0
  /\ pc = "tx"
  /\ failed = "none"
  /\ lastCall = Called("DoCreateStation", TRUE)
  /\ fill = FillStart(0, 0)

\* A frame is acknowledged.  The last interval ends once the counters have
\* been renormalised.
DoReportDataOkRenorm ==
  /\ Running /\ pc = "tx"
  /\ \E s0 \in {CheckInit(station, now, cfg)} :
       /\ s0.m_isHt
       /\ \/ now = 0 /\ s0.m_frameCount < RenormEarly
          \/ now > 0 /\ now >= s0.m_nextStatsUpdate
          \/ now = QuietLen + 1
               /\ s0.m_frameCount >= QuietLen
               /\ s0.m_frameCount < RenormRun + RenormLate
       /\ \E coinFlip \in (IF now = 0
                             \/ (now >= QuietLen + 1 /\ s0.m_frameCount >= RenormRun)
                           THEN {0, 1} ELSE {0}) :
            station' = DataOk(s0, now, cfg, coinFlip)
  /\ lastCall' = Called("DoReportDataOk", TRUE)
  /\ UNCHANGED <<cfg, now, pc, failed, fill>>

NextRenorm ==
  \/ TickSlow
  \/ DoReportDataOkRenorm

SpecRenorm == InitRenorm /\ [][NextRenorm]_vars

\* ------------------------------------------------------------------------
\* Retry counts: managers whose attribute PacketLength differs
\* ------------------------------------------------------------------------
PacketLengths == {100, 1200, 1416, 1420, 2304}

RetryConfigs ==
  { [Config(TRUE, 2, 75, 50, 1, OneStream20) EXCEPT !.m_frameLength = len] :
      len \in PacketLengths }

InitRetry ==
  /\ cfg \in RetryConfigs
  /\ station = DoCreateStation(0)
  /\ now = 0
  /\ pc = "tx"
  /\ failed = "none"
  /\ lastCall = Called("DoCreateStation", TRUE)
  /\ fill = FillStart(0, 0)

NextRetry ==
  \/ Tick
  \/ DoReportDataOkFourGroups
  \/ DoReportDataFailedFourGroups
  \/ DoNeedDataRetransmission

SpecRetry == InitRetry /\ [][NextRetry]_vars

\* ------------------------------------------------------------------------
\* Share of sampled frames: the default look-around rate, long enough for a
\* second sample to become due
\* ------------------------------------------------------------------------
MaxShareFrames == 11

ShareConfigs == { Config(TRUE, 4, 75, 10, 1, OneStream20) }

InitShare ==
  /\ cfg \in ShareConfigs
  /\ station = DoCreateStation(0)
  /\ now = 0
  /\ pc = "tx"
  /\ failed = "none"
  /\ lastCall = Called("DoCreateStation", TRUE)
  /\ fill = FillStart(0, 0)

\* A frame is acknowledged at its first attempt, or given up.
DoReportDataOkShare ==
  /\ Running /\ pc = "tx"
  /\ \E s0 \in {CheckInit(station, now, cfg)} :
       /\ s0.m_isHt
       /\ s0.m_frameCount < MaxShareFrames
       /\ s0.m_longRetry = 0
       /\ \E coinFlip \in {0, 1} :
            station' = DataOk(s0, now, cfg, coinFlip)
  /\ lastCall' = Called("DoReportDataOk", TRUE)
  /\ UNCHANGED <<cfg, now, pc, failed, fill>>

DoReportDataFailedShare ==
  /\ station.m_err < MaxErr
  /\ DoReportDataFailed

NextShare ==
  \/ Tick
  \/ DoReportDataOkShare
  \/ DoReportDataFailedShare
  \/ DoNeedDataRetransmission
  \/ DoReportFinalDataFailed

SpecShare == InitShare /\ [][NextShare]_vars

\* ------------------------------------------------------------------------
\* Coverage: an endless run in which every frame is acknowledged, every
\* frame explores and statistics passes keep running
\* ------------------------------------------------------------------------
\* The run never ends, so the station is kept up to what the code can tell
\* apart.  Time is counted from the present: the code reads
\* m_nextStatsUpdate only to compare it with Simulator::Now (line 1036) and
\* writes it as Now plus the interval (line 1043), so the clock stays at 0
\* and a tick brings the deadline one tick nearer.  numSamplesSkipped is
\* read only by the test `>= 20' of line 989, so it is held at 20 once it
\* has got there.
CoverConfigs == { Config(TRUE, 4, 0, 50, 4, OneStream20) }

CapSkipped(st) ==
  [st EXCEPT !.m_mcsTable =
     [j \in Groups |->
        IF st.m_mcsTable[j].m_supported
        THEN [st.m_mcsTable[j] EXCEPT !.m_minstrelTable =
                [i \in 0..(st.m_nSupportedMcs - 1) |->
                   [@[i] EXCEPT !.numSamplesSkipped = IF @ > 20 THEN 20 ELSE @]]]
        ELSE st.m_mcsTable[j]]]

InitCover ==
  /\ cfg \in CoverConfigs
  /\ station = DoCreateStation(0)
  /\ now = 0
  /\ pc = "tx"
  /\ failed = "none"
  /\ lastCall = Called("DoCreateStation", TRUE)
  /\ fill = FillStart(0, 0)

\* The moments at which the interval of 100 ms runs out: once after the
\* first two samples, then every time the cursor has gone round the two
\* columns of the sample table and stands on row 1 of column 1.
IntervalOver ==
  /\ HtReady(station)
  /\ pc = "tx"
  /\ station.m_nextStatsUpdate > 0
  /\ \/ station.m_frameCount = 2 /\ station.m_sampleCount = 2
     \/ Cursor(station).at[0] = <<1, 1>>

TickCover ==
  /\ Running
  /\ IntervalOver
  /\ station' = [station EXCEPT !.m_nextStatsUpdate = @ - 1]
  /\ lastCall' = Called("Tick", TRUE)
  /\ UNCHANGED <<cfg, now, pc, failed, fill>>

\* The channel loses the first attempt of every frame sent at MCS 0 and no
\* other attempt.
Lost == station.m_initialized => (station.m_txRate = 0 /\ station.m_longRetry = 0)

\* A frame is acknowledged; the coin selects exploration.  The result of
\* the call records whether the statistics pass ran and whether the
\* selector drew a sample.
DoReportDataOkCover ==
  /\ Running /\ pc = "tx"
  /\ ~IntervalOver
  /\ ~Lost
  /\ \E s0 \in {CheckInit(station, now, cfg)} :
       /\ s0.m_isHt
       /\ station' = CapSkipped(DataOk(s0, now, cfg, 1))
       /\ lastCall' = Called("DoReportDataOk",
                             [pass |-> ~(now < s0.m_nextStatsUpdate),
                              drawn |-> Cursor(DataOk(s0, now, cfg, 1)) # Cursor(s0)])
  /\ UNCHANGED <<cfg, now, pc, failed, fill>>

DoReportDataFailedCover ==
  /\ ~IntervalOver
  /\ Lost
  /\ DoReportDataFailed

NextCover ==
  \/ TickCover
  \/ DoReportDataOkCover
  \/ DoReportDataFailedCover
  \/ DoNeedDataRetransmission

\* Time keeps passing: a statistics interval that is over does end.
SpecCover == InitCover /\ [][NextCover]_vars /\ WF_vars(TickCover)

\* ------------------------------------------------------------------------
\* Properties
\* ------------------------------------------------------------------------
\* Flat indices of the rates of the supported groups of a station.
SupportedRates(st) ==
  { GetIndex(j, i) : j \in { g \in Groups : st.m_mcsTable[g].m_supported },
                     i \in 0..(st.m_nSupportedMcs - 1) }

Budget(st, index) == RateInfo(st, index).adjustedRetryCount

\* The three tiers of the retry chain of the frame in progress.
Tier1(st) == IF st.m_isSampling THEN st.m_sampleRate ELSE st.m_maxTpRate
Tier2(st) == IF st.m_isSampling THEN st.m_maxTpRate ELSE st.m_maxTpRate2
Tier3(st) == st.m_maxProbRate
ChainBudget(st) ==
  Budget(st, Tier1(st)) + Budget(st, Tier2(st)) + Budget(st, Tier3(st))

MaxRetriesMsg == "Max retries reached and m_longRetry not cleared properly."

\* C1: under the caller protocol (DoNeedDataRetransmission consulted after
\* every reported attempt failure, the frame abandoned as soon as it returns
\* false) the fatal assertion of the retry chain is never reached.
C1_AssertionNeverReached == failed # MaxRetriesMsg

\* The last budgeted attempt of a sampling frame and of a normal frame has
\* just failed.
C1_Witness ==
  /\ HtReady(station) /\ lastCall.op = "DoReportDataFailed"
  /\ station.m_isSampling
  /\ station.m_longRetry = ChainBudget(station)

\* C2: on an initialized HT station DoNeedDataRetransmission returns false
\* iff longRetries >= the sum of the adjusted retry budgets of the three
\* active tiers, and it changes no station state.
C2_NeedRetransmissionIffBelowBudget ==
  [][ (HtReady(station) /\ lastCall'.op = "DoNeedDataRetransmission")
        => /\ station' = station
           /\ (lastCall'.ret = FALSE
                 <=> station.m_longRetry >= ChainBudget(station)) ]_vars

C2_Witness ==
  /\ HtReady(station) /\ lastCall.op = "DoNeedDataRetransmission"
  /\ lastCall.ret = FALSE
  /\ ~station.m_isSampling
  /\ station.m_longRetry = ChainBudget(station)
  /\ station.m_maxTpRate # station.m_maxTpRate2

\* C3: not sampling, after an attempt failure the next rate is the
\* best-throughput rate while longRetries < budget(best), else the second
\* best while longRetries < budget(best) + budget(second), else the
\* best-probability rate while longRetries <= the sum of the three budgets.
C3_LadderNotSampling ==
  (HtReady(station) /\ lastCall.op = "DoReportDataFailed"
     /\ ~station.m_isSampling /\ station.m_longRetry <= ChainBudget(station))
  => LET lr == station.m_longRetry
         b1 == Budget(station, station.m_maxTpRate)
         b2 == Budget(station, station.m_maxTpRate2)
     IN station.m_txRate =
          IF lr < b1 THEN station.m_maxTpRate
          ELSE IF lr < b1 + b2 THEN station.m_maxTpRate2
               ELSE station.m_maxProbRate

C3_Witness ==
  /\ HtReady(station) /\ lastCall.op = "DoReportDataFailed"
  /\ ~station.m_isSampling
  /\ station.m_txRate = station.m_maxTpRate2
  /\ station.m_maxTpRate2 # station.m_maxTpRate
  /\ station.m_maxTpRate2 # station.m_maxProbRate

C5_AdjustedRetryAtLeastOne ==
  HtReady(station)
  => \A r \in SupportedRates(station) : RateInfo(station, r).adjustedRetryCount >= 1

\* A pass with recorded attempts has adjusted the budget of a rate.
C5_Witness ==
  /\ HtReady(station) /\ now >= m_updateStats
  /\ station.m_nextStatsUpdate > now
  /\ \E r \in SupportedRates(station) :
       /\ RateInfo(station, r).ewmaProb > 17100
       /\ RateInfo(station, r).adjustedRetryCount = 2
       /\ RateInfo(station, r).retryCount > 2

\* C6: every rate of a supported group has 0 <= ewmaProb <= 18000 in every
\* reachable state.
C6_EwmaProbBounded ==
  HtReady(station)
  => \A r \in SupportedRates(station) :
       /\ 0 <= RateInfo(station, r).ewmaProb
       /\ RateInfo(station, r).ewmaProb <= 18000

\* A pass has averaged an interval of successes and failures.
C6_Witness ==
  /\ HtReady(station)
  /\ \E r \in SupportedRates(station) :
       /\ RateInfo(station, r).prob > 0 /\ RateInfo(station, r).prob < 18000
       /\ RateInfo(station, r).ewmaProb > 0
       /\ RateInfo(station, r).ewmaProb < RateInfo(station, r).prob

\* C7: after InitSampleTable, whatever the random draws, every column of
\* the sample table holds every index of 0..n-1 exactly once, and the
\* probing loop always finds a slot.
C7_SampleColumnsArePermutations ==
  /\ ~fill.hung
  /\ FillDone(fill)
       => \A c \in 0..(fill.cols - 1) : \A v \in 0..(fill.n - 1) :
            Cardinality({ r \in 0..(fill.n - 1) : fill.table[r][c] = v }) = 1

\* A finished table of at least three rates whose columns differ and whose
\* first column is not the identity.
C7_Witness ==
  /\ pc = "fill" /\ FillDone(fill) /\ fill.n >= 3 /\ fill.cols >= 2
  /\ fill.table[0][0] # 0
  /\ \E r \in 0..(fill.n - 1) : fill.table[r][0] # fill.table[r][1]

NoAttempts(st) ==
  \A r \in SupportedRates(st) : RateInfo(st, r).numRateAttempt = 0

\* C8: a second run of UpdateStats within the interval of the last pass,
\* no attempt recorded since, changes nothing of the station.
C8_SecondUpdateChangesNothing ==
  (HtReady(station) /\ NoAttempts(station))
  => \A t \in now..MaxTime :
       t < station.m_nextStatsUpdate
         => UpdateStats(station, t, cfg.m_ewmaLevel) = station

\* A pass over recorded attempts has just run.
C8_Witness ==
  /\ HtReady(station) /\ NoAttempts(station)
  /\ lastCall.op = "DoReportDataOk"
  /\ station.m_nextStatsUpdate = now + m_updateStats
  /\ \E r \in SupportedRates(station) : RateInfo(station, r).throughput > 0
  /\ \E r \in SupportedRates(station) : RateInfo(station, r).numSamplesSkipped > 0

\* C9: with frameCount + sampleCount = 0 FindRate returns the best
\* throughput rate whatever the coin, leaving the station (sample cursor
\* included) as it is; a freshly initialized station uses rate 0 of its
\* lowest supported group.
C9_BootstrapRate ==
  [][ /\ (HtReady(station) /\ station.m_frameCount + station.m_sampleCount = 0)
        => /\ \A coinFlip \in {0, 1} :
                /\ FindRate(station, coinFlip, cfg).st = station
                /\ FindRate(station, coinFlip, cfg).rate = station.m_maxTpRate
           /\ lastCall'.op = "DoReportFinalDataFailed"
                => /\ station'.m_txRate = station'.m_maxTpRate
                   /\ Cursor(station') = Cursor(station)
                   /\ ~station'.m_isSampling
                   /\ station'.m_sampleCount = 0
                   /\ failed' = "none"
      /\ (~station.m_initialized /\ HtReady(station')
            /\ lastCall'.op = "DoGetDataTxVector")
        => /\ station'.m_txRate
                = GetIndex(LowestSupported(station'.m_mcsTable, 0), 0)
           /\ station'.m_txRate = station'.m_maxTpRate
           /\ failed' = "none" ]_vars

\* A frame was abandoned before any frame succeeded.
C9_Witness ==
  /\ HtReady(station) /\ lastCall.op = "DoReportFinalDataFailed"
  /\ station.m_frameCount + station.m_sampleCount = 0
  /\ station.m_err = 1
  /\ station.m_txRate = 0

\* The pass of the 100th consecutive success at rate R.
HundredthSuccess ==
  /\ HtReady(station) /\ lastCall'.op = "DoReportDataOk"
  /\ now >= station.m_nextStatsUpdate
  /\ RateInfo(station, station.m_txRate).numRateSuccess = 99
  /\ RateInfo(station, station.m_txRate).numRateAttempt = 99

\* C10 as stated: after 100 consecutive successes at rate R and one pass,
\* throughput(R) = 16200 * (1000000 / idealDuration(R)).
C10_ThroughputIsClampValue ==
  [][ HundredthSuccess
        => RateInfo(station', station.m_txRate).throughput
             = 16200 * (1000000 \div RateInfo(station, station.m_txRate).perfectTxTime)
    ]_vars

\* C10 amended: throughput(R) is computed from the new EWMA probability
\* e = (18000 * (100 - w) + ewmaProb * w) / 100: 0 if e < 1800, else
\* min (e, 16200) * (1000000 / idealDuration(R)).
C10_ThroughputFromClampedEwma ==
  [][ HundredthSuccess
        => LET r == RateInfo(station, station.m_txRate)
               e == (18000 * (100 - cfg.m_ewmaLevel)
                       + r.ewmaProb * cfg.m_ewmaLevel) \div 100
           IN /\ RateInfo(station', station.m_txRate).ewmaProb = e
              /\ RateInfo(station', station.m_txRate).throughput
                   = IF e < 1800 THEN 0
                     ELSE Min(e, 16200) * (1000000 \div r.perfectTxTime)
    ]_vars

\* The pass after 100 successes has clamped the probability of a rate.
C10_Witness ==
  /\ HtReady(station) /\ lastCall.op = "DoReportDataOk"
  /\ station.m_frameCount = 100
  /\ station.m_nextStatsUpdate = now + m_updateStats
  /\ \E r \in SupportedRates(station) :
       /\ RateInfo(station, r).prob = 18000
       /\ RateInfo(station, r).ewmaProb > 16200
       /\ RateInfo(station, r).throughput
            = 16200 * (1000000 \div RateInfo(station, r).perfectTxTime)

\* The stations on which the Rate Selector runs if a frame completes now:
\* the counters of the outcome are updated and UpdateStats has run.
SelectorInputs ==
  { UpdateStats(CountOk(station), now, cfg.m_ewmaLevel),
    UpdateStats(CountFinalFailed(station), now, cfg.m_ewmaLevel) }

\* The look-around test lets the selector explore on station st.
Exploring(st) ==
  /\ st.m_sampleCount + st.m_frameCount > 0
  /\ (100 * st.m_sampleCount) \div (st.m_sampleCount + st.m_frameCount)
        < cfg.m_lookAroundRate

\* The rate under the sample cursor of st.
Candidate(st) == GetIndex(st.m_sampleGroup,
                          st.m_sampleTable[st.m_mcsTable[st.m_sampleGroup].m_index]
                                          [st.m_mcsTable[st.m_sampleGroup].m_col])

Preferred(st, r) == r \in {st.m_maxTpRate, st.m_maxTpRate2, st.m_maxProbRate}

Streams(r) == m_minstrelGroups[GetGroupId(r)].streams

\* Rate r is not faster than the rates the duration comparison names.
FailsDurationTest(st, r) ==
  /\ RateInfo(st, r).perfectTxTime >= RateInfo(st, st.m_maxTpRate2).perfectTxTime
  /\ ~(Streams(r) <= Streams(st.m_maxTpRate) - 1
       /\ RateInfo(st, r).perfectTxTime
            < RateInfo(st, st.m_maxProbRate).perfectTxTime)

\* The selector, its coin selecting exploration, accepts rate r on st.
AcceptsSample(st, r) ==
  /\ FindRate(st, 1, cfg).rate = r
  /\ FindRate(st, 1, cfg).st.m_isSampling
  /\ FindRate(st, 1, cfg).st.m_sampleRate = r

\* C11 as stated: a rate that is none of the three preferred rates, skipped
\* for at least 20 intervals, drawn as the candidate with slowSampleCount
\* <= 2 and failing the duration comparison, is accepted as the sample.
C11_SlowSampleAccepted ==
  HtReady(station)
    => \A st \in SelectorInputs :
         (/\ Exploring(st)
          /\ ~Preferred(st, Candidate(st))
          /\ RateInfo(st, Candidate(st)).numSamplesSkipped >= 20
          /\ st.m_numSamplesSlow <= 2
          /\ FailsDurationTest(st, Candidate(st)))
           => AcceptsSample(st, Candidate(st))

\* C11 amended: the same with slowSampleCount <= 1 before the selector runs
\* (it counts the candidate first and then tests <= 2) and the candidate's
\* ewmaProb at most 17100 (the test that precedes the duration comparison).
C11_SlowSampleAcceptedTwice ==
  HtReady(station)
    => \A st \in SelectorInputs :
         (/\ Exploring(st)
          /\ ~Preferred(st, Candidate(st))
          /\ RateInfo(st, Candidate(st)).ewmaProb <= 17100
          /\ RateInfo(st, Candidate(st)).numSamplesSkipped >= 20
          /\ st.m_numSamplesSlow <= 1
          /\ FailsDurationTest(st, Candidate(st)))
           => /\ AcceptsSample(st, Candidate(st))
              /\ FindRate(st, 1, cfg).st.m_numSamplesSlow = st.m_numSamplesSlow + 1
              /\ FindRate(st, 1, cfg).st.m_sampleCount = st.m_sampleCount + 1

\* A starved rate slower than the second best rate has just been accepted
\* as the sample, the second of its interval.
C11_Witness ==
  /\ HtReady(station) /\ lastCall.op = "DoReportDataOk"
  /\ station.m_isSampling
  /\ station.m_txRate = station.m_sampleRate
  /\ station.m_numSamplesSlow = 2
  /\ ~Preferred(station, station.m_sampleRate)
  /\ RateInfo(station, station.m_sampleRate).numSamplesSkipped >= 20
  /\ FailsDurationTest(station, station.m_sampleRate)

\* C12: after every executed pass (the station is initialized by a pass and
\* budgets change in passes only), a rate whose ewmaProb is below 1800 or
\* above 17100 has adjustedRetryCount <= 2, and a rate whose ewmaProb lies
\* within [1800, 17100] has adjustedRetryCount = retryCount floored at 1.
C12_RetryBudgetCapped ==
  HtReady(station)
    => \A r \in SupportedRates(station) :
         IF RateInfo(station, r).ewmaProb < 1800
            \/ RateInfo(station, r).ewmaProb > 17100
         THEN RateInfo(station, r).adjustedRetryCount <= 2
         ELSE RateInfo(station, r).adjustedRetryCount
                = (IF RateInfo(station, r).retryCount = 0 THEN 1
                   ELSE RateInfo(station, r).retryCount)

\* What a pass that runs after `succ' successes and `att' attempts were
\* counted for rate info r leaves in the fields the counters decide.
PassedWith(r1, r, succ, att) ==
  /\ r1.numRateSuccess = 0 /\ r1.numRateAttempt = 0
  /\ IF att = 0
     THEN /\ r1.numSamplesSkipped = r.numSamplesSkipped + 1
          /\ r1.prob = r.prob /\ r1.ewmaProb = r.ewmaProb
     ELSE /\ r1.numSamplesSkipped = 0
          /\ r1.prob = (succ * 18000) \div att

\* The current rate is what the Rate Selector returned: the accepted sample,
\* counted in sampleCount, or else the best throughput rate.
SelectorResult(st, st1) ==
  IF st1.m_isSampling
  THEN /\ st1.m_txRate = st1.m_sampleRate
       /\ st1.m_sampleCount = st.m_sampleCount + 1
  ELSE /\ st1.m_txRate = st1.m_maxTpRate
       /\ st1.m_sampleCount = st.m_sampleCount

\* C13: DoReportDataOk on an HT station counts one success and one attempt
\* for the rate that was current and for no other rate, zeroes shortRetries
\* and longRetries, adds one to frameCount, runs UpdateStats (which, when
\* the deadline has passed, consumes the counters just incremented) and
\* sets the current rate to the selector's result; isSampling is true
\* afterwards only if that call accepted a sample.
C13_DataOkEffects ==
  [][ /\ (HtReady(station) /\ lastCall'.op = "DoReportDataOk")
        => /\ station'.m_shortRetry = 0 /\ station'.m_longRetry = 0
           /\ station'.m_frameCount = station.m_frameCount + 1
           /\ station'.m_err = station.m_err
           /\ SelectorResult(station, station')
           /\ IF now < station.m_nextStatsUpdate
              THEN /\ station'.m_nextStatsUpdate = station.m_nextStatsUpdate
                   /\ \A r \in SupportedRates(station) :
                        RateInfo(station', r)
                          = IF r = station.m_txRate
                            THEN [RateInfo(station, r) EXCEPT
                                    !.numRateSuccess = @ + 1,
                                    !.numRateAttempt = @ + 1]
                            ELSE RateInfo(station, r)
              ELSE /\ station'.m_nextStatsUpdate = now + m_updateStats
                   /\ \A r \in SupportedRates(station) :
                        PassedWith(RateInfo(station', r), RateInfo(station, r),
                          RateInfo(station, r).numRateSuccess
                            + (IF r = station.m_txRate THEN 1 ELSE 0),
                          RateInfo(station, r).numRateAttempt
                            + (IF r = station.m_txRate THEN 1 ELSE 0))
      /\ (~station.m_initialized /\ HtReady(station')
            /\ lastCall'.op = "DoReportDataOk")
        => /\ station'.m_shortRetry = 0 /\ station'.m_longRetry = 0
           /\ station'.m_frameCount = 1
           /\ SelectorResult(station, station')
           /\ \A r \in SupportedRates(station') :
                /\ RateInfo(station', r).numRateSuccess
                     = RateInfo(station', r).numRateAttempt
                /\ RateInfo(station', r).numRateAttempt
                     = IF r = GetIndex(LowestSupported(station'.m_mcsTable, 0), 0)
                       THEN 1 ELSE 0
    ]_vars

\* A frame sent at a sampled rate was acknowledged, a pass has consumed the
\* success counted for that rate, and the selector went back to the best
\* throughput rate.
C13_Witness ==
  /\ HtReady(station) /\ lastCall.op = "DoReportDataOk"
  /\ ~station.m_isSampling /\ station.m_sampleCount >= 1
  /\ station.m_frameCount >= 2
  /\ now >= 1 /\ station.m_nextStatsUpdate = now + m_updateStats
  /\ station.m_sampleRate # station.m_maxTpRate2
  /\ RateInfo(station, station.m_sampleRate).prob = 18000
  /\ station.m_txRate = station.m_maxTpRate

\* C14: DoReportFinalDataFailed on an HT station zeroes shortRetries and
\* longRetries, clears isSampling before the selector runs, runs
\* UpdateStats, sets the current rate to the selector's result, adds
\* exactly one to the error counter and counts no success (nor attempt, nor
\* frame).
C14_FinalDataFailedEffects ==
  [][ (HtReady(station) /\ lastCall'.op = "DoReportFinalDataFailed")
        => /\ station'.m_shortRetry = 0 /\ station'.m_longRetry = 0
           /\ station'.m_err = station.m_err + 1
           /\ station'.m_frameCount = station.m_frameCount
           /\ SelectorResult(station, station')
           /\ IF now < station.m_nextStatsUpdate
              THEN /\ station'.m_nextStatsUpdate = station.m_nextStatsUpdate
                   /\ \A r \in SupportedRates(station) :
                        RateInfo(station', r) = RateInfo(station, r)
              ELSE /\ station'.m_nextStatsUpdate = now + m_updateStats
                   /\ \A r \in SupportedRates(station) :
                        PassedWith(RateInfo(station', r), RateInfo(station, r),
                                   RateInfo(station, r).numRateSuccess,
                                   RateInfo(station, r).numRateAttempt)
    ]_vars

\* A frame was abandoned, the pass of that call has consumed its failed
\* attempts, and the selector of that call accepted a sample.
C14_Witness ==
  /\ HtReady(station) /\ lastCall.op = "DoReportFinalDataFailed"
  /\ station.m_err = 1
  /\ now >= 1 /\ station.m_nextStatsUpdate = now + m_updateStats
  /\ station.m_isSampling /\ station.m_txRate = station.m_sampleRate
  /\ \E r \in SupportedRates(station) :
       /\ RateInfo(station, r).numSamplesSkipped = 0
       /\ RateInfo(station, r).prob = 0

\* C15: DoReportDataFailed on an HT station adds one to longRetries and one
\* to the attempt counter of the rate that was current before the ladder
\* switches, and changes nothing else of the station but the current rate:
\* no success counter, no ewmaProb, throughput or retry budget, none of the
\* three rate pointers, not isSampling, frameCount or sampleCount.
C15_DataFailedEffects ==
  [][ /\ (HtReady(station) /\ lastCall'.op = "DoReportDataFailed")
        => [station' EXCEPT !.m_txRate = station.m_txRate]
             = [station EXCEPT
                  !.m_longRetry = @ + 1,
                  !.m_mcsTable[GetGroupId(station.m_txRate)]
                     .m_minstrelTable[GetRateId(station.m_txRate)]
                     .numRateAttempt = @ + 1]
      /\ (~station.m_initialized /\ HtReady(station')
            /\ lastCall'.op = "DoReportDataFailed")
        => /\ station'.m_longRetry = 1
           /\ station'.m_frameCount = 0 /\ station'.m_sampleCount = 0
           /\ ~station'.m_isSampling
           /\ \A r \in SupportedRates(station') :
                /\ RateInfo(station', r).numRateSuccess = 0
                /\ RateInfo(station', r).numRateAttempt
                     = IF r = GetIndex(LowestSupported(station'.m_mcsTable, 0), 0)
                       THEN 1 ELSE 0
    ]_vars

\* An attempt at a sampled rate other than the best throughput rate has
\* failed after earlier frames were acknowledged.
C15_Witness ==
  /\ HtReady(station) /\ lastCall.op = "DoReportDataFailed"
  /\ station.m_isSampling
  /\ station.m_sampleRate # station.m_maxTpRate
  /\ station.m_longRetry >= 1
  /\ RateInfo(station, station.m_sampleRate).numRateAttempt >= 1
  /\ RateInfo(station, station.m_maxTpRate).numRateSuccess >= 1

\* C16: in DoGetRtsTxVector for an HT station, whenever a basic rate or a
\* PHY mode with a data rate <= the non-HT reference rate of the last data
\* rate exists, the operation completes without a fatal assertion.
C16_RtsRateFoundCompletes ==
  (lastCall.op = "DoGetRtsTxVector" /\ HtReady(station)
     /\ RtsRateFound(station, lastCall.ret.basic))
    => failed = "none"

\* C17: when no group is supported by both the radio and the peer, the
\* initialization of an HT station ends in a fatal assertion: once a handler
\* has been called for the station, the program is in an error state.
C17_NoGroupAborts ==
  (cfg.htSupported /\ (\A j \in Groups : ~GroupSupported(j, cfg))
     /\ lastCall.op # "DoCreateStation")
    => failed # "none"

\* The group asks for nothing that the radio or the peer lacks.
BothSupport(j) ==
  LET g == m_minstrelGroups[j]
  IN /\ g.sgi = 1 => (cfg.phySgi /\ cfg.staSgi)
     /\ g.chWidth <= Min(cfg.phyWidth, cfg.staWidth)
     /\ g.streams <= Min(cfg.phyTx, cfg.staRx)

SelectedRates(st) ==
  {st.m_txRate, st.m_maxTpRate, st.m_maxTpRate2, st.m_maxProbRate}

\* C18: a group is marked supported iff the radio and the peer both support
\* its guard interval, channel width and stream count; the current rate and
\* the three selected rates always belong to a supported group, and the
\* assertion "Inconsistent group selected." is never reached.
C18_RatesInSupportedGroups ==
  /\ failed # "Inconsistent group selected."
  /\ HtReady(station) =>
       /\ \A j \in Groups : station.m_mcsTable[j].m_supported <=> BothSupport(j)
       /\ \A r \in SelectedRates(station) :
            /\ GetGroupId(r) \in Groups
            /\ station.m_mcsTable[GetGroupId(r)].m_supported
            /\ GetRateId(r) < station.m_nSupportedMcs

\* A station with two supported groups is asked for a transmit vector while
\* its current rate lies in the second one; a group that the radio alone
\* would support is not marked supported.
C18_Witness ==
  /\ HtReady(station)
  /\ lastCall.op = "DoGetDataTxVector"
  /\ GetGroupId(station.m_txRate) = 1
  /\ \E j \in Groups : /\ ~station.m_mcsTable[j].m_supported
                        /\ m_minstrelGroups[j].sgi = 1 /\ cfg.phySgi

\* The throughput recorded for the rate with flat index r.
Tp(st, r) == RateInfo(st, r).throughput

\* The rates of group j.
GroupRates(st, j) == { GetIndex(j, i) : i \in 0..(st.m_nSupportedMcs - 1) }

\* second is not best and no rate of `rates' other than best beats it.
IsSecondBest(st, rates, best, second) ==
  /\ second # best
  /\ second \in rates
  /\ \A r \in rates \ {best} : Tp(st, r) <= Tp(st, second)

TwoWithThroughput(st, rates) ==
  \E r1, r2 \in rates : r1 # r2 /\ Tp(st, r1) > 0 /\ Tp(st, r2) > 0

\* C19: when at least two rates of supported groups have throughput > 0,
\* the global second-best-throughput rate differs from the global best one
\* and has the highest throughput among the other supported rates.
C19_GlobalSecondBest ==
  (HtReady(station) /\ TwoWithThroughput(station, SupportedRates(station)))
    => IsSecondBest(station, SupportedRates(station),
                    station.m_maxTpRate, station.m_maxTpRate2)

\* C20: in every supported group with at least two rates of throughput > 0,
\* the group's second-max-throughput rate differs from its max-throughput
\* rate and has the highest throughput among the group's other rates.
C20_GroupSecondBest ==
  HtReady(station) =>
    \A j \in Groups :
      (station.m_mcsTable[j].m_supported
         /\ TwoWithThroughput(station, GroupRates(station, j)))
        => IsSecondBest(station, GroupRates(station, j),
                        station.m_mcsTable[j].m_maxTpRate,
                        station.m_mcsTable[j].m_maxTpRate2)

\* The ewmaProb recorded for the rate with flat index r.
Prob(st, r) == RateInfo(st, r).ewmaProb

\* The rate of lowest flat index among the supported rates of highest
\* throughput.
FirstOfHighestThroughput(st) ==
  LET rates == SupportedRates(st)
  IN CHOOSE r \in rates :
       \A q \in rates :
         Tp(st, q) < Tp(st, r) \/ (Tp(st, q) = Tp(st, r) /\ r <= q)

\* The rate of lowest flat index among the supported rates of highest
\* ewmaProb.
FirstOfHighestProb(st) ==
  LET rates == SupportedRates(st)
  IN CHOOSE r \in rates :
       \A q \in rates :
         Prob(st, q) < Prob(st, r) \/ (Prob(st, q) = Prob(st, r) /\ r <= q)

\* C21: the global best-throughput rate is the supported rate of maximum
\* throughput and the global best-probability rate the supported rate of
\* maximum ewmaProb, the lowest flat index winning among equals; with all
\* values 0 that is coding index 0 of the lowest supported group.
C21_GlobalBestRates ==
  HtReady(station) =>
    /\ station.m_maxTpRate = FirstOfHighestThroughput(station)
    /\ station.m_maxProbRate = FirstOfHighestProb(station)
    /\ (\A q \in SupportedRates(station) : Tp(station, q) = 0)
         => station.m_maxTpRate
              = GetIndex(LowestSupported(station.m_mcsTable, 0), 0)
    /\ (\A q \in SupportedRates(station) : Prob(station, q) = 0)
         => station.m_maxProbRate
              = GetIndex(LowestSupported(station.m_mcsTable, 0), 0)

\* A pass has found the best throughput in the second group while two
\* rates share the highest ewmaProb and the lower one was chosen.
C21_Witness ==
  /\ HtReady(station)
  /\ GetGroupId(station.m_maxTpRate) = 1
  /\ Tp(station, 0) > 0
  /\ station.m_maxProbRate = 0
  /\ Prob(station, 0) = Prob(station, station.m_maxTpRate)

\* A frame completes on an initialized HT station after the deadline: the
\* handler counts the outcome and the pass of UpdateStats is executed.
PassExecuted ==
  /\ HtReady(station)
  /\ now >= station.m_nextStatsUpdate
  /\ lastCall'.op \in {"DoReportDataOk", "DoReportFinalDataFailed"}

\* The attempts counted for rate r when that pass runs.
AttemptsAtPass(r) ==
  RateInfo(station, r).numRateAttempt
    + (IF lastCall'.op = "DoReportDataOk" /\ r = station.m_txRate THEN 1 ELSE 0)

\* The ideal duration of rate info r in microseconds, as the pass reads it.
IdealDuration(r) == IF r.perfectTxTime = 0 THEN 1000000 ELSE r.perfectTxTime

\* C22: on an executed pass a supported rate with attempts > 0 gets
\* throughput 0 if its new ewmaProb < 1800 and otherwise
\* min (ewmaProb, 16200) * (1000000 div idealDuration); a rate without
\* attempts keeps prob, ewmaProb and throughput.
C22_ThroughputOfPass ==
  [][ PassExecuted
        => \A r \in SupportedRates(station) :
             IF AttemptsAtPass(r) > 0
             THEN RateInfo(station', r).throughput
                    = IF RateInfo(station', r).ewmaProb < 1800 THEN 0
                      ELSE Min(RateInfo(station', r).ewmaProb, 16200)
                             * (1000000 \div IdealDuration(RateInfo(station, r)))
             ELSE /\ RateInfo(station', r).prob = RateInfo(station, r).prob
                  /\ RateInfo(station', r).ewmaProb = RateInfo(station, r).ewmaProb
                  /\ RateInfo(station', r).throughput
                       = RateInfo(station, r).throughput
    ]_vars

\* A pass has just given one rate a throughput from an unclamped ewmaProb
\* while another rate, not attempted, kept a throughput > 0.
C22_Witness ==
  /\ HtReady(station) /\ lastCall.op = "DoReportDataOk"
  /\ station.m_nextStatsUpdate = now + m_updateStats
  /\ \E r, q \in SupportedRates(station) :
       /\ r # q
       /\ RateInfo(station, r).numSamplesSkipped = 0
       /\ RateInfo(station, r).ewmaProb \in 1800..16199
       /\ RateInfo(station, r).throughput > 0
       /\ RateInfo(station, q).numSamplesSkipped > 0
       /\ RateInfo(station, q).throughput > 0

\* A frame completes on an initialized HT station before the deadline:
\* UpdateStats returns at once.
PassSkipped ==
  /\ HtReady(station)
  /\ now < station.m_nextStatsUpdate
  /\ lastCall'.op \in {"DoReportDataOk", "DoReportFinalDataFailed"}

\* The successes counted for rate r when the handler calls UpdateStats.
SuccessesAtPass(r) ==
  RateInfo(station, r).numRateSuccess
    + (IF lastCall'.op = "DoReportDataOk" /\ r = station.m_txRate THEN 1 ELSE 0)

\* C23: an executed pass leaves the attempt and success counters of every
\* supported rate at 0, samplesSkipped at 0 for a rate that had attempts and
\* one higher for a rate that had none; a call before the deadline resets
\* nothing, so the counters keep what was counted.
C23_CountersOfPass ==
  [][ /\ PassExecuted
        => \A r \in SupportedRates(station) :
             /\ RateInfo(station', r).numRateAttempt = 0
             /\ RateInfo(station', r).numRateSuccess = 0
             /\ RateInfo(station', r).numSamplesSkipped
                  = IF AttemptsAtPass(r) > 0 THEN 0
                    ELSE RateInfo(station, r).numSamplesSkipped + 1
      /\ PassSkipped
        => \A r \in SupportedRates(station) :
             /\ RateInfo(station', r).numRateAttempt = AttemptsAtPass(r)
             /\ RateInfo(station', r).numRateSuccess = SuccessesAtPass(r)
             /\ RateInfo(station', r).numSamplesSkipped
                  = RateInfo(station, r).numSamplesSkipped
    ]_vars

\* A pass has run after two frames were counted for one rate before the
\* deadline: that rate has samplesSkipped 0, another was skipped again.
C23_Witness ==
  /\ HtReady(station)
  /\ lastCall.op \in {"DoReportDataOk", "DoReportFinalDataFailed"}
  /\ station.m_nextStatsUpdate = now + m_updateStats
  /\ now >= 1
  /\ \A r \in SupportedRates(station) : RateInfo(station, r).numRateAttempt = 0
  /\ \E r, q \in SupportedRates(station) :
       /\ RateInfo(station, r).numSamplesSkipped = 0
       /\ RateInfo(station, r).prob \in 1..17999
       /\ RateInfo(station, q).numSamplesSkipped >= 2

\* A pass has run in this step: it moves the deadline, zeroes the counters
\* of the rates that were attempted and adds one to samplesSkipped of the
\* others.
PassRan ==
  \/ station'.m_nextStatsUpdate # station.m_nextStatsUpdate
  \/ \E r \in SupportedRates(station) :
       \/ RateInfo(station', r).numSamplesSkipped
            # RateInfo(station, r).numSamplesSkipped
       \/ RateInfo(station', r).numRateAttempt
            < RateInfo(station, r).numRateAttempt

\* C24: a pass runs only at a time >= nextStatsUpdate and sets
\* nextStatsUpdate = now + m_updateStats, and nothing else moves
\* nextStatsUpdate; so a pass at time t bars every pass before
\* t + m_updateStats, whatever frames complete in between.  The pass of the
\* initialization obeys the same rule from the time of creation.
C24_PassesAtLeastIntervalApart ==
  [][ /\ HtReady(station)
        => /\ PassRan
                => /\ now >= station.m_nextStatsUpdate
                   /\ station'.m_nextStatsUpdate = now + m_updateStats
           /\ PassExecuted
                => station'.m_nextStatsUpdate = now + m_updateStats
      /\ (~station.m_initialized /\ HtReady(station'))
        => /\ now >= station.m_nextStatsUpdate
           /\ station'.m_nextStatsUpdate = now + m_updateStats
      /\ now' >= now
    ]_vars

\* Frames have completed before and after the deadline was reached, and the
\* last of them ran a pass later than the pass of the initialization.
C24_Witness ==
  /\ HtReady(station)
  /\ lastCall.op = "DoReportFinalDataFailed"
  /\ now >= 2
  /\ station.m_nextStatsUpdate = now + m_updateStats
  /\ station.m_frameCount >= 1
  /\ \E r \in SupportedRates(station) :
       RateInfo(station, r).numSamplesSkipped = 0

\* The stations on which UpdateStats runs if a frame completes now.
UpdaterInputs == { CountOk(station), CountFinalFailed(station) }

\* The pass promotes the current rate of st to the best throughput rate of
\* st1: higher flat index and at least as many streams.
Promotes(st, st1) ==
  /\ st1.m_maxTpRate > st.m_txRate
  /\ Streams(st1.m_maxTpRate) >= Streams(st.m_txRate)

PendingSelectorInputs ==
  IF pc = "tx" THEN {UpdateStats(CountOk(station), now, cfg.m_ewmaLevel)}
  ELSE IF pc = "final"
       THEN {UpdateStats(CountFinalFailed(station), now, cfg.m_ewmaLevel)}
       ELSE {}

\* The selector is past its bootstrap case on station st.
PastBootstrap(st) == st.m_sampleCount + st.m_frameCount > 0

\* C26: outside the bootstrap case the selector moves the sample cursor only
\* if 100 * sampleCount / (sampleCount + frameCount) < look-around rate and
\* the coin selects exploration; otherwise it returns the best throughput
\* rate, leaves the station (sampleCount, isSampling, sampleRate and cursor
\* included) as it is and fires the rate-change notification.
C26_ExploreOnlyBelowLookAround ==
  HtReady(station) =>
    \A st \in PendingSelectorInputs : \A coinFlip \in {0, 1} :
      PastBootstrap(st) =>
        LET res == FindRate(st, coinFlip, cfg)
        IN /\ Cursor(res.st) # Cursor(st) => (Exploring(st) /\ coinFlip = 1)
           /\ ~(Exploring(st) /\ coinFlip = 1)
                => /\ res.rate = st.m_maxTpRate
                   /\ res.st = st
                   /\ res.notify.sent

\* The selector is about to run with the coin on exploration while the
\* share of samples equals the look-around rate: it exploits.
C26_Witness ==
  /\ HtReady(station)
  /\ \E st \in PendingSelectorInputs :
       /\ st.m_sampleCount >= 1
       /\ (100 * st.m_sampleCount) \div (st.m_sampleCount + st.m_frameCount)
            = cfg.m_lookAroundRate
       /\ FindRate(st, 1, cfg).rate = st.m_maxTpRate
       /\ ~FindRate(st, 1, cfg).st.m_isSampling

\* C27: the selector accepts no sample that equals the best-throughput,
\* second-best-throughput or best-probability rate, nor one whose ewmaProb
\* exceeds 17100; and while isSampling is true the sample rate differs from
\* the three preferred rates.
C27_SampleIsNotPreferred ==
  HtReady(station) =>
    /\ station.m_isSampling => ~Preferred(station, station.m_sampleRate)
    /\ \A st \in SelectorInputs : \A coinFlip \in {0, 1} :
         FindRate(st, coinFlip, cfg).st.m_isSampling
           => /\ ~Preferred(st, FindRate(st, coinFlip, cfg).rate)
              /\ Prob(st, FindRate(st, coinFlip, cfg).rate) <= 17100
              /\ FindRate(st, coinFlip, cfg).st.m_sampleRate
                   = FindRate(st, coinFlip, cfg).rate

\* The candidate under the cursor is none of the preferred rates but its
\* ewmaProb exceeds 17100: the selector, exploring, does not sample it.
C27_Witness ==
  /\ HtReady(station)
  /\ pc = "tx"
  /\ \E st \in SelectorInputs :
       /\ Exploring(st)
       /\ ~Preferred(st, Candidate(st))
       /\ Prob(st, Candidate(st)) > 17100
       /\ ~FindRate(st, 1, cfg).st.m_isSampling
       /\ FindRate(st, 1, cfg).rate = st.m_maxTpRate

\* The ideal duration of the rate with flat index r.
Duration(st, r) == RateInfo(st, r).perfectTxTime

\* Rate r passes the rejection test of the selector on station st.
PassesRejection(st, r) == ~Preferred(st, r) /\ Prob(st, r) <= 17100

\* The selector has accepted a sample on st without counting it as slow.
AcceptedNormally(st, res) ==
  /\ res.st.m_isSampling
  /\ res.st.m_numSamplesSlow = st.m_numSamplesSlow

\* C28: a candidate that passes the rejection test is accepted on the
\* normal path iff its ideal duration is shorter than that of the
\* second-best-throughput rate, or its group has at most (streams of the
\* best-throughput rate - 1) streams and its ideal duration is shorter than
\* that of the best-probability rate; with a one-stream best-throughput
\* rate only the first alternative decides.
C28_DurationTest ==
  HtReady(station) =>
    \A st \in SelectorInputs :
      (Exploring(st) /\ PassesRejection(st, Candidate(st)))
        => /\ AcceptedNormally(st, FindRate(st, 1, cfg))
                <=> \/ Duration(st, Candidate(st)) < Duration(st, st.m_maxTpRate2)
                    \/ /\ Streams(Candidate(st)) <= Streams(st.m_maxTpRate) - 1
                       /\ Duration(st, Candidate(st))
                            < Duration(st, st.m_maxProbRate)
           /\ Streams(st.m_maxTpRate) = 1
                => (AcceptedNormally(st, FindRate(st, 1, cfg))
                      <=> Duration(st, Candidate(st))
                            < Duration(st, st.m_maxTpRate2))

\* A one-stream candidate, not shorter than the second-best-throughput rate
\* but shorter than the best-probability rate, is accepted because the
\* best-throughput rate uses two streams.
C28_Witness ==
  /\ HtReady(station)
  /\ pc = "tx"
  /\ \E st \in SelectorInputs :
       /\ Exploring(st) /\ PassesRejection(st, Candidate(st))
       /\ Duration(st, Candidate(st)) >= Duration(st, st.m_maxTpRate2)
       /\ Streams(Candidate(st)) = 1 /\ Streams(st.m_maxTpRate) = 2
       /\ Duration(st, Candidate(st)) < Duration(st, st.m_maxProbRate)
       /\ AcceptedNormally(st, FindRate(st, 1, cfg))

\* The slow-sample counter when the selector of this step starts: a pass
\* that ran first has reset it.
SlowBefore == IF PassExecuted THEN 0 ELSE station.m_numSamplesSlow

\* A completed-frame handler on an initialized HT station.
FrameCompleted ==
  /\ HtReady(station)
  /\ lastCall'.op \in {"DoReportDataOk", "DoReportFinalDataFailed"}

\* The selector of this step has accepted a sample through the slow path:
\* the candidate was counted as slow and is sampled all the same.
SlowAccepted ==
  /\ FrameCompleted
  /\ station'.m_isSampling
  /\ station'.m_numSamplesSlow = SlowBefore + 1

\* C29: a sample accepted through the slow path is the first or the second
\* candidate counted as slow since the last executed pass and has
\* samplesSkipped >= 20; the counter of slow candidates never decreases
\* between passes and every executed pass resets it to 0 before the
\* selector runs.  So at most two slow samples are accepted between two
\* consecutive executed passes.
C29_AtMostTwoSlowSamples ==
  [][ /\ SlowAccepted
        => /\ station'.m_numSamplesSlow <= 2
           /\ RateInfo(station', station'.m_sampleRate).numSamplesSkipped >= 20
      /\ FrameCompleted
        => station'.m_numSamplesSlow \in {SlowBefore, SlowBefore + 1}
      /\ (HtReady(station) /\ ~FrameCompleted)
        => station'.m_numSamplesSlow = station.m_numSamplesSlow
    ]_vars

\* The second slow sample of an interval has just been accepted.
C29_Witness ==
  /\ HtReady(station)
  /\ lastCall.op = "DoReportDataOk"
  /\ station.m_isSampling
  /\ station.m_numSamplesSlow = 2
  /\ station.m_nextStatsUpdate > now
  /\ RateInfo(station, station.m_sampleRate).numSamplesSkipped >= 20
  /\ FailsDurationTest(station, station.m_sampleRate)


\* The selector accepts a sample on station st with the coin coinFlip.
Accepts(st, coinFlip) == FindRate(st, coinFlip, cfg).st.m_isSampling

\* The accepted sample came through the slow path: the candidate failed the
\* duration comparison.
AcceptsSlowly(st) ==
  /\ Accepts(st, 1)
  /\ FindRate(st, 1, cfg).st.m_numSamplesSlow = st.m_numSamplesSlow + 1

\* C30: when the Rate Selector accepts a sample, on the normal or the slow
\* path, isSampling is true and sampleRate is the rate returned; if
\* frameCount < 10000 then sampleCount grows by exactly one and frameCount
\* is unchanged, and if frameCount >= 10000 both are left at 0.
C30_SampleAccepted ==
  HtReady(station) =>
    \A st \in SelectorInputs : \A coinFlip \in {0, 1} :
      Accepts(st, coinFlip) =>
        /\ FindRate(st, coinFlip, cfg).st.m_sampleRate
             = FindRate(st, coinFlip, cfg).rate
        /\ st.m_frameCount < 10000 =>
             /\ FindRate(st, coinFlip, cfg).st.m_sampleCount = st.m_sampleCount + 1
             /\ FindRate(st, coinFlip, cfg).st.m_frameCount = st.m_frameCount
        /\ st.m_frameCount >= 10000 =>
             /\ FindRate(st, coinFlip, cfg).st.m_sampleCount = 0
             /\ FindRate(st, coinFlip, cfg).st.m_frameCount = 0

\* The frame that brought frameCount to 10000 was followed by a sample
\* accepted on the slow path: both counters are 0 while the station is
\* sampling a rate that fails the duration comparison.
C30_Witness ==
  /\ HtReady(station)
  /\ lastCall.op = "DoReportDataOk"
  /\ now = QuietLen + 1
  /\ station.m_isSampling
  /\ station.m_frameCount = 0 /\ station.m_sampleCount = 0
  /\ station.m_numSamplesSlow >= 1
  /\ FailsDurationTest(station, station.m_sampleRate)


\* The data rate carried by the notification n.
Notified(n) == GetDataRate(n.mcs, n.group)

\* The data rate of the rate with flat index r.
DataRateOf(r) == GetDataRate(GetRateId(r), GetGroupId(r))

\* C31: every rate-change notification of the Rate Selector carries the
\* data rate of the rate the selector returns: that of the sampled rate when
\* a sample is accepted, that of the best throughput rate otherwise.
C31_NotifiesReturnedRate ==
  HtReady(station) =>
    \A st \in PendingSelectorInputs : \A coinFlip \in {0, 1} :
      LET res == FindRate(st, coinFlip, cfg)
      IN res.notify.sent => Notified(res.notify) = DataRateOf(res.rate)

\* The contention window before retransmission k: 31 at first, then doubled
\* (plus one) up to 1023.
RECURSIVE ContentionWindow(_)
ContentionWindow(k) ==
  IF k = 0 THEN 31 ELSE Min(1023, 2 * (ContentionWindow(k - 1) + 1))

\* The average backoff, in microseconds, of the first r retransmissions.
RECURSIVE Backoff(_)
Backoff(r) ==
  IF r = 0 THEN 0 ELSE Backoff(r - 1) + (ContentionWindow(r - 1) \div 2) * Slot

\* The time of a unicast frame of ideal duration t retried r times.
RetriedTime(t, r) == (r + 1) * (t + AckTimeout) + Backoff(r)

\* The largest element of the nonempty set S of numbers.
Largest(S) == CHOOSE x \in S : \A y \in S : y <= x

\* The largest retry count in 2..10 whose time is below the ceiling, resp.
\* does not exceed it; 1 if there is none.
BudgetBelow(t) ==
  LET S == { r \in 2..10 : RetriedTime(t, r) < 6000 }
  IN IF S = {} THEN 1 ELSE Largest(S)

BudgetWithin(t) ==
  LET S == { r \in 2..10 : RetriedTime(t, r) <= 6000 }
  IN IF S = {} THEN 1 ELSE Largest(S)

\* C32 as stated: the raw retry budget of every rate is the largest count in
\* 2..10 whose retried time stays under 6 ms, 1 if there is none; it lies
\* in 1..10 and no handler modifies it.
C32_RawBudgetBelowCeiling ==
  [][ /\ HtReady(station') =>
           \A r \in SupportedRates(station') :
             /\ RateInfo(station', r).retryCount
                  = BudgetBelow(RateInfo(station', r).perfectTxTime)
             /\ RateInfo(station', r).retryCount \in 1..10
      /\ HtReady(station) =>
           \A r \in SupportedRates(station) :
             RateInfo(station', r).retryCount = RateInfo(station, r).retryCount
    ]_vars

\* C32 amended: the raw retry budget of every rate is the largest count in
\* 2..10 whose retried time does not exceed 6 ms (a time of exactly 6 ms is
\* accepted), 1 if there is none; it lies in 1..10 and no handler modifies
\* it.
C32_RawBudgetWithinCeiling ==
  [][ /\ HtReady(station') =>
           \A r \in SupportedRates(station') :
             /\ RateInfo(station', r).retryCount
                  = BudgetWithin(RateInfo(station', r).perfectTxTime)
             /\ RateInfo(station', r).retryCount \in 1..10
      /\ HtReady(station) =>
           \A r \in SupportedRates(station) :
             RateInfo(station', r).retryCount = RateInfo(station, r).retryCount
    ]_vars

\* A statistics pass has run on a station one of whose rates, retried
\* twice, takes exactly 6 ms and has the raw budget 2.
C32_Witness ==
  /\ HtReady(station)
  /\ now >= 1 /\ station.m_nextStatsUpdate > m_updateStats
  /\ \E r \in SupportedRates(station) :
       /\ RetriedTime(RateInfo(station, r).perfectTxTime, 2) = 6000
       /\ RateInfo(station, r).retryCount = 2

\* The supported groups of station st.
SupportedGroups(st) == { j \in Groups : st.m_mcsTable[j].m_supported }

\* The first supported group after group g in cyclic group-id order.
NextInCycle(st, g) ==
  LET d == CHOOSE k \in 1..N_GROUPS :
             /\ ((g + k) % N_GROUPS) \in SupportedGroups(st)
             /\ \A m \in 1..(k - 1) : ((g + m) % N_GROUPS) \notin SupportedGroups(st)
  IN (g + d) % N_GROUPS

\* The cursor <<row, column>> that follows the cursor c of station st.
NextCell(st, c) ==
  IF c[1] + 1 < st.m_nSupportedMcs THEN <<c[1] + 1, c[2]>>
  ELSE IF c[2] + 1 < cfg.m_nSampleCol THEN <<0, c[2] + 1>>
  ELSE <<0, 0>>

\* The cursors of station st are in range and its sample group is supported.
CursorsInRange(st) ==
  /\ st.m_sampleGroup \in SupportedGroups(st)
  /\ \A j \in SupportedGroups(st) :
       /\ Cursor(st).at[j][1] \in 0..(st.m_nSupportedMcs - 1)
       /\ Cursor(st).at[j][2] \in 0..(cfg.m_nSampleCol - 1)

\* The cursor of station st after one sample draw.
CursorAfterDraw(st) ==
  [group |-> NextInCycle(st, st.m_sampleGroup),
   at |-> [Cursor(st).at EXCEPT ![NextInCycle(st, st.m_sampleGroup)] = NextCell(st, @)]]

\* C34: a sample draw returns the cell under the cursor of the current
\* sample group, then makes the next supported group (cyclic in the group
\* id) the sample group and advances the cursor of that group by one row,
\* the row wrapping to 0 with the column incremented and the column wrapping
\* to 0 at the number of sample columns; every handler leaves the cursors as
\* they are or makes exactly one draw; in every state of an initialized HT
\* station the cursors of the supported groups are in range and the sample
\* group is supported.
C34_SampleCursor ==
  [][ HtReady(station') =>
        /\ CursorsInRange(station')
        /\ GetNextSample(station', cfg.m_nSampleCol).rateIndex
             = GetIndex(station'.m_sampleGroup,
                        station'.m_sampleTable
                          [Cursor(station').at[station'.m_sampleGroup][1]]
                          [Cursor(station').at[station'.m_sampleGroup][2]])
        /\ Cursor(GetNextSample(station', cfg.m_nSampleCol).st)
             = CursorAfterDraw(station')
        /\ HtReady(station) =>
             Cursor(station') \in {Cursor(station), CursorAfterDraw(station)}
    ]_vars

\* A station with two supported groups has drawn samples from both in
\* turn until the cursor of the sample group wrapped in the row and in the
\* column.
C34_Witness ==
  /\ HtReady(station)
  /\ lastCall.op = "DoReportDataOk"
  /\ Cardinality(SupportedGroups(station)) = 2
  /\ station.m_frameCount >= 4
  /\ Cursor(station).at[station.m_sampleGroup] = <<0, 0>>
  /\ \E j \in SupportedGroups(station) : Cursor(station).at[j] # <<0, 0>>

\* The rate of attempt number k (the first attempt is number 1) of a frame
\* of station st: the tiers in order, each for its budget.
AttemptRate(st, k) ==
  IF k <= Budget(st, Tier1(st)) THEN Tier1(st)
  ELSE IF k <= Budget(st, Tier1(st)) + Budget(st, Tier2(st)) THEN Tier2(st)
  ELSE Tier3(st)

\* The tiers of the frame in progress and their budgets.
Chain(st) ==
  <<Tier1(st), Tier2(st), Tier3(st),
    Budget(st, Tier1(st)), Budget(st, Tier2(st)), Budget(st, Tier3(st))>>

Completes == lastCall'.op \in {"DoReportDataOk", "DoReportFinalDataFailed"}

\* C36: after initialization and after every DoReportDataOk or
\* DoReportFinalDataFailed on an HT station the current rate is the sample
\* rate if isSampling is true and the best throughput rate otherwise; it is
\* the rate returned by the Rate Selector on the station the Statistics
\* Updater leaves, whatever current rate the updater has set.
C36_CurrentRateIsSelectorResult ==
  [][ /\ (HtReady(station') /\ station'.m_nSupportedMcs >= 1
            /\ (Completes \/ (~station.m_initialized
                                /\ lastCall'.op \in {"DoGetDataTxVector",
                                                     "DoNeedDataRetransmission"})))
        => station'.m_txRate = Tier1(station')
      /\ (HtReady(station) /\ station.m_nSupportedMcs >= 1 /\ Completes)
        => \E st \in PendingSelectorInputs : \E coinFlip \in {0, 1} :
             /\ station'.m_txRate = FindRate(st, coinFlip, cfg).rate
             /\ station' = [FindRate(st, coinFlip, cfg).st
                              EXCEPT !.m_txRate = FindRate(st, coinFlip, cfg).rate]
    ]_vars

\* A frame is about to be given up after the deadline, its last attempt
\* made at another rate than the best one: the pass will promote the
\* current rate to the new best throughput rate, which the selector returns.
C36_Witness ==
  /\ HtReady(station)
  /\ pc = "final"
  /\ now >= station.m_nextStatsUpdate
  /\ Promotes(CountFinalFailed(station),
              UpdateStats(CountFinalFailed(station), now, cfg.m_ewmaLevel))
  /\ \E st \in PendingSelectorInputs :
       /\ st.m_txRate = st.m_maxTpRate
       /\ st.m_txRate # station.m_txRate
       /\ FindRate(st, 1, cfg).rate = st.m_maxTpRate

\* C37: for every rate of every supported group the successes of the
\* interval never exceed its attempts, so that the probability
\* successes * 18000 / attempts of the next pass, and the one stored by the
\* last pass, is at most 18000.
C37_SuccessesAtMostAttempts ==
  HtReady(station) =>
    \A r \in SupportedRates(station) :
      /\ RateInfo(station, r).numRateSuccess <= RateInfo(station, r).numRateAttempt
      /\ RateInfo(station, r).numRateAttempt > 0
           => (RateInfo(station, r).numRateSuccess * 18000)
                \div RateInfo(station, r).numRateAttempt <= 18000
      /\ RateInfo(station, r).prob <= 18000

\* Within one interval a rate has failed attempts and acknowledged frames,
\* after a pass that stored a probability strictly between 0 and 18000.
C37_Witness ==
  /\ HtReady(station)
  /\ \E r \in SupportedRates(station) :
       /\ RateInfo(station, r).numRateSuccess >= 1
       /\ RateInfo(station, r).numRateSuccess < RateInfo(station, r).numRateAttempt
  /\ \E q \in SupportedRates(station) :
       RateInfo(station, q).prob \in 1..17999

\* No frame of station st has been acknowledged or sampled yet.
NothingCounted(st) == st.m_frameCount + st.m_sampleCount = 0 /\ ~st.m_isSampling

\* C38: only DoReportDataOk increments frameCount; as long as no frame has
\* succeeded, frameCount + sampleCount stays 0 through every other handler,
\* isSampling stays false, the sample cursor stays where initialization
\* left it, and the Rate Selector run by DoReportFinalDataFailed takes the
\* bootstrap branch: it returns the best throughput rate without a
\* rate-change notification, whatever the coin.
C38_NothingBeforeFirstSuccess ==
  [][ /\ (HtReady(station) /\ lastCall'.op # "DoReportDataOk")
        => station'.m_frameCount <= station.m_frameCount
      /\ (~station.m_initialized /\ HtReady(station')
            /\ lastCall'.op # "DoReportDataOk")
        => NothingCounted(station')
      /\ (HtReady(station) /\ NothingCounted(station)
            /\ lastCall'.op # "DoReportDataOk")
        => /\ NothingCounted(station')
           /\ Cursor(station') = Cursor(station)
           /\ lastCall'.op = "DoReportFinalDataFailed"
                => \A st \in PendingSelectorInputs : \A coinFlip \in {0, 1} :
                     /\ ~FindRate(st, coinFlip, cfg).notify.sent
                     /\ FindRate(st, coinFlip, cfg).rate = st.m_maxTpRate
                     /\ FindRate(st, coinFlip, cfg).st = st
    ]_vars

\* A frame has been given up, a statistics pass has run, and an attempt of
\* the next frame has failed, before any frame succeeded.
C38_Witness ==
  /\ HtReady(station)
  /\ lastCall.op = "DoReportDataFailed"
  /\ station.m_err = 1
  /\ station.m_longRetry >= 1
  /\ station.m_nextStatsUpdate > m_updateStats
  /\ NothingCounted(station)

\* The look-around test of lines 911-912 applied to the counters as they
\* were before the last accepted sample was counted.
ShareBeforeLastSample(st) ==
  (100 * (st.m_sampleCount - 1))
     \div ((st.m_sampleCount - 1) + st.m_frameCount)

\* C39: whenever sampleCount >= 1, the integer ratio
\* 100*(sampleCount-1) / ((sampleCount-1)+frameCount) is defined and
\* strictly below the look-around percentage: the share of sampled frames
\* exceeds the look-around target by at most one sample.
C39_SampleShareBounded ==
  (HtReady(station) /\ station.m_sampleCount >= 1)
    => /\ (station.m_sampleCount - 1) + station.m_frameCount > 0
       /\ ShareBeforeLastSample(station) < cfg.m_lookAroundRate
       /\ (cfg.m_lookAroundRate = 10
             => 9 * (station.m_sampleCount - 1) < station.m_frameCount)

\* A second sample has just been accepted and the share of sampled frames
\* has reached the look-around target.
C39_Witness ==
  /\ HtReady(station)
  /\ station.m_sampleCount >= 2
  /\ station.m_isSampling
  /\ (100 * station.m_sampleCount)
        \div (station.m_sampleCount + station.m_frameCount)
       >= cfg.m_lookAroundRate

\* C40: on an initialized HT station DoReportRtsFailed changes nothing but
\* shortRetry, which grows by one, and DoReportFinalRtsFailed nothing but
\* shortRetry and longRetry, reset to 0, and the error counter, which grows
\* by one: current rate, isSampling, frameCount, sampleCount, the counters
\* and statistics of every rate, the best rates, the sample cursor and the
\* time of the next statistics pass stay as they were, also when a
\* statistics pass is due.
C40_RtsFailuresTouchRetryCountersOnly ==
  [][ /\ (HtReady(station) /\ lastCall'.op = "DoReportRtsFailed")
        => station' = [station EXCEPT !.m_shortRetry = station.m_shortRetry + 1]
      /\ (HtReady(station) /\ lastCall'.op = "DoReportFinalRtsFailed")
        => station' = [station EXCEPT !.m_shortRetry = 0, !.m_longRetry = 0,
                                      !.m_err = station.m_err + 1]
    ]_vars

\* A frame was given up for want of a CTS while the station was sampling
\* and a statistics pass was due.
C40_Witness ==
  /\ HtReady(station)
  /\ lastCall.op = "DoReportFinalRtsFailed"
  /\ station.m_err = 1
  /\ station.m_isSampling
  /\ station.m_frameCount >= 1
  /\ now >= station.m_nextStatsUpdate

\* The step reports an acknowledged frame.
FrameAcknowledged == lastCall'.op = "DoReportDataOk"

\* The step reports an acknowledged frame that ran a statistics pass.
PassReported == lastCall'.op = "DoReportDataOk" /\ lastCall'.ret.pass

\* The step reports an acknowledged frame whose selector drew a sample.
ExplorationSelected == lastCall'.op = "DoReportDataOk" /\ lastCall'.ret.drawn

\* Rate r of a supported group is none of the three preferred rates and
\* its ewmaProb is at most 95%.
StarvedCandidate(r) ==
  HtReady(station) =>
    /\ r \in SupportedRates(station)
    /\ ~Preferred(station, r)
    /\ RateInfo(station, r).ewmaProb <= 17100

\* Rate r has been accepted as the sample rate of the frame in progress.
AcceptedAsSample(r) ==
  HtReady(station) /\ station.m_isSampling /\ station.m_sampleRate = r

\* C33: in every run in which frames keep being acknowledged, statistics
\* passes keep running and exploration is selected again and again, every
\* rate of a supported group that stays outside the three preferred rates
\* with ewmaProb <= 17100 is eventually accepted as the sample rate.
C33_EventualCoverage ==
  \A r \in 0..(MAX_GROUP_RATES - 1) :
    ( /\ []<><<FrameAcknowledged>>_vars
      /\ []<><<PassReported>>_vars
      /\ []<><<ExplorationSelected>>_vars
      /\ []StarvedCandidate(r) )
      => <>AcceptedAsSample(r)

====
